---- MODULE Spec2Model ----
(***************************************************************************)
(* Alphabet Swarm (src/AlphabetSwarm.py): the letter swarm, the            *)
(* preview/confirm key handling, the hint timer, scoring and the screen    *)
(* state machine, as a state machine.                                      *)
(*                                                                         *)
(* Conventions.                                                            *)
(*  - Python lists are sequences: Python index k is TLA+ index k + 1.      *)
(*    Entity numbers (the values kept in active_preview_letter_indices)    *)
(*    are the TLA+ indices 1..num_letters; current_letter_index and        *)
(*    letter_target_slot_indices keep Python's 0-based values, because     *)
(*    the code compares them with len() and with -1.                       *)
(*  - Coordinates and velocities are floats in the code.  They are kept in *)
(*    fixed point, PosScale units per pixel, and the only inexact          *)
(*    operation (the normalised seek step) truncates.                      *)
(*  - Times are milliseconds of pygame.time.get_ticks().                   *)
(*  - An uncaught Python exception ends the program: the variable          *)
(*    exception holds its name and every action requires exception =      *)
(*    "none".  The assignments made before the raising statement stay.     *)
(*  - Drawing, colours, sounds and the score/feedback banners do not feed  *)
(*    back into the logic and are left out.                                *)
(***************************************************************************)
EXTENDS Integers, Sequences, FiniteSets, TLC

\* ------------------------------------------------------------------------
\* Program constants
\* ------------------------------------------------------------------------
window_width == 1000
window_height == 700
ANIMATION_SPEED == 10
PREVIEW_DURATION_MS == 3000
PREVIEW_SPEED_FACTOR_X10 == 5
HINTS_PER_WORD == 3
HINT_TIMER_DURATION_MS == 30000
MAX_NAME_LENGTH == 8
CURSOR_BLINK_RATE_MS == 500
FLASH_DURATION_MS == 500
NEW_WORD_DELAY_MS == 2000
default_letter_size == 40
ENLARGED_LETTER_SIZE == 200
default_letter_speed == 2
num_letters == 26
SLOT_Y_POS == 30
SENTINEL_COORD == -100

letters ==
  << "A", "B", "C", "D", "E", "F", "G", "H", "I", "J", "K", "L", "M",
     "N", "O", "P", "Q", "R", "S", "T", "U", "V", "W", "X", "Y", "Z" >>

STATE_MAIN_MENU == "main_menu"
STATE_PLAYER_NAME_INPUT == "player_name_input"
STATE_GAME_PLAY == "game_play"
STATE_SHOW_TURN_TRANSITION == "show_turn_transition"
STATE_VERSUS_GAME_OVER == "versus_game_over"
STATE_LEADERBOARD_DISPLAY == "leaderboard_display"
ACTION_QUIT == "ACTION_QUIT"

STATE_NORMAL == "normal"
STATE_PREVIEW == "preview"
STATE_ANIMATING_TO_SLOT == "animating_to_slot"
STATE_PLACED == "placed"

GAME_MODE_1P == "1P"
GAME_MODE_2P_VERSUS == "2P_Versus"

\* Python's None, for previewed_letter_char.
None == "None"

\* ------------------------------------------------------------------------
\* Bounds and input sets of the model
\* ------------------------------------------------------------------------
\* Fixed-point units per pixel.
PosScale == 10

\* The clock is not advanced beyond MaxTime (hint-paced play) or
\* MaxFrameTime (frame-by-frame play).
MaxTime == 150000
MaxFrameTime == 8000

\* Time between two frames in frame-by-frame play.
FrameMs == 2000

\* How much later than the frame's own sample a second read of the clock
\* inside a handler can be.
ResampleLags == {0, 3}

\* The clock of the two-player game left to the hints is not advanced beyond
\* MaxTurnsTime: room for a failed word of each player and the update that
\* ends the second player's turn.
MaxTurnsTime == 300000

\* The clock of the menu-only specification stops at MaxMenuTime, and at
\* most MaxTyped characters are typed into a name.
MaxMenuTime == 4000
MaxTyped == 3

\* The characters typed into a name.
NameChars == {"a", " "}

\* The word list (words.txt or DEFAULT_SIMPLE_WORDS): two default entries.
simple_words == << <<"C", "A", "T">>, <<"T", "R", "E", "E">> >>

\* The alphabetic keys the player presses.
Keys == {"C", "T", "E"}

\* The letter key of hint-paced play.
LetterKeys == {"T"}

\* What the random draws of a new-word setup give every entity: a position
\* within [0, window - default size] and a velocity of speed 1 or 2.
Layouts ==
  { [pos |-> <<0, 0>>, vel |-> <<-12, -16>>],
    [pos |-> << (window_width - default_letter_size) * PosScale,
                (window_height - default_letter_size) * PosScale >>,
     vel |-> <<6, 8>>],
    [pos |-> <<480 * PosScale, 45 * PosScale>>, vel |-> <<-10, 0>>] }

\* ------------------------------------------------------------------------
\* Arithmetic helpers
\* ------------------------------------------------------------------------
Abs(n) == IF n < 0 THEN -n ELSE n

\* Division truncating toward zero, as float-to-fixed truncation.
TruncDiv(a, b) == IF a >= 0 THEN a \div b ELSE -((-a) \div b)

RECURSIVE SqrtSearch(_, _, _)
SqrtSearch(n, lo, hi) ==
  IF lo >= hi THEN lo
  ELSE LET mid == (lo + hi + 1) \div 2
       IN IF mid * mid <= n THEN SqrtSearch(n, mid, hi)
          ELSE SqrtSearch(n, lo, mid - 1)

\* floor(math.sqrt(n))
ISqrt(n) == SqrtSearch(n, 0, (window_width + window_height) * PosScale)

LetterIndex(c) == CHOOSE i \in 1..Len(letters) : letters[i] = c

\* F(e) with e evaluated once: sequential composition of two steps of a
\* handler.
Then(e, F(_)) == CHOOSE after \in {F(before) : before \in {e}} : TRUE

RECURSIVE SumSeq(_)
SumSeq(s) == IF s = <<>> THEN 0 ELSE Head(s) + SumSeq(Tail(s))

\* ------------------------------------------------------------------------
\* Helper functions of the program
\* ------------------------------------------------------------------------
get_word_base_score(word_str) ==
  LET length == Len(word_str)
  IN IF length = 3 THEN 30
     ELSE IF length = 4 THEN 40
     ELSE IF length = 5 THEN 50
     ELSE 0

\* The multiplier in thousandths.  In the source the two per-letter time
\* constants are assigned on the line of "if word_length == 0: return 1.0",
\* after the return and inside that if: for any other word length the next
\* line reads a local that was never bound.
calculate_speed_multiplier(time_taken_ms, word_length) ==
  IF word_length = 0
  THEN [raised |-> "none", value |-> 1000]
  ELSE [raised |-> "UnboundLocalError", value |-> 0]

\* Width in pixels of one character in the target-word font
\* (pygame.font.Font(None, 50).size): a proportional font.
CharWidth(ch) ==
  IF ch = " " THEN 11
  ELSE IF ch = "_" THEN 20
  ELSE IF ch \in {"T", "E"} THEN 23
  ELSE 25

TextWidth(chars) == SumSeq([k \in 1..Len(chars) |-> CharWidth(chars[k])])

\* The text "d0 d1 ... dn" that is measured: the displayed characters with a
\* space after each but the last.
DisplayString(tw, dwc) ==
  LET ch(k) == IF k <= Len(dwc) THEN dwc[k] ELSE "_"
  IN [k \in 1..(2 * Len(tw) - 1) |->
        IF k % 2 = 1 THEN ch((k + 1) \div 2) ELSE " "]

\* Pixel coordinate of slot slot_index (0-based), in fixed point.
get_slot_position(slot_index, tw, dwc) ==
  IF tw = <<>> \/ slot_index < 0 \/ slot_index >= Len(tw)
  THEN <<SENTINEL_COORD * PosScale, SENTINEL_COORD * PosScale>>
  ELSE LET ch(k) == IF k <= Len(dwc) THEN dwc[k] ELSE "_"
           total_word_width == TextWidth(DisplayString(tw, dwc))
           target_word_start_x ==
             (window_width \div 2) - (total_word_width \div 2)
           before ==
             SumSeq([k \in 1..slot_index |-> CharWidth(ch(k)) + CharWidth(" ")])
           slot_center_x ==
             target_word_start_x + before + (CharWidth(ch(slot_index + 1)) \div 2)
       IN <<slot_center_x * PosScale, SLOT_Y_POS * PosScale>>

\* ------------------------------------------------------------------------
\* State
\* ------------------------------------------------------------------------
VARIABLES
  running,                      \* the main loop's flag
  exception,                    \* "none", or the uncaught exception's name
  clock,                        \* the latest value pygame.time.get_ticks() gave
  current_time,                 \* the frame's sample of the clock
  current_game_state, current_game_mode, current_player_turn,
  player_scores, player_failed_last_word,
  player_names, player_name_inputs, input_active_player,
  cursor_visible, cursor_timer,
  target_word, displayed_word_chars, current_letter_index, word_start_time,
  hints_used_this_word, hint_timer_start_time, is_hint_timer_active,
  show_clue_on_screen,
  previewed_letter_char, active_preview_letter_indices,
  pending_new_word_setup_time,
  letter_states, letter_positions, letter_velocities,
  original_letter_velocities, letter_preview_timers,
  letter_target_slot_indices, letter_feedback_flash_timers

vars ==
  << running, exception, clock, current_time,
     current_game_state, current_game_mode, current_player_turn,
     player_scores, player_failed_last_word,
     player_names, player_name_inputs, input_active_player,
     cursor_visible, cursor_timer,
     target_word, displayed_word_chars, current_letter_index, word_start_time,
     hints_used_this_word, hint_timer_start_time, is_hint_timer_active,
     show_clue_on_screen,
     previewed_letter_char, active_preview_letter_indices,
     pending_new_word_setup_time,
     letter_states, letter_positions, letter_velocities,
     original_letter_velocities, letter_preview_timers,
     letter_target_slot_indices, letter_feedback_flash_timers >>

\* The module-level globals the handlers read and write, as one record, so
\* that a handler is a function from the record before to the record after.
Globals ==
  [ exception |-> exception,
    current_game_state |-> current_game_state,
    current_player_turn |-> current_player_turn,
    player_scores |-> player_scores,
    player_failed_last_word |-> player_failed_last_word,
    target_word |-> target_word,
    displayed_word_chars |-> displayed_word_chars,
    current_letter_index |-> current_letter_index,
    word_start_time |-> word_start_time,
    hints_used_this_word |-> hints_used_this_word,
    hint_timer_start_time |-> hint_timer_start_time,
    is_hint_timer_active |-> is_hint_timer_active,
    show_clue_on_screen |-> show_clue_on_screen,
    previewed_letter_char |-> previewed_letter_char,
    active_preview_letter_indices |-> active_preview_letter_indices,
    pending_new_word_setup_time |-> pending_new_word_setup_time,
    letter_states |-> letter_states,
    letter_positions |-> letter_positions,
    letter_velocities |-> letter_velocities,
    original_letter_velocities |-> original_letter_velocities,
    letter_preview_timers |-> letter_preview_timers,
    letter_target_slot_indices |-> letter_target_slot_indices,
    letter_feedback_flash_timers |-> letter_feedback_flash_timers ]

\* The globals after a handler, written back.
Store(g) ==
  /\ exception' = g.exception
  /\ current_game_state' = g.current_game_state
  /\ current_player_turn' = g.current_player_turn
  /\ player_scores' = g.player_scores
  /\ player_failed_last_word' = g.player_failed_last_word
  /\ target_word' = g.target_word
  /\ displayed_word_chars' = g.displayed_word_chars
  /\ current_letter_index' = g.current_letter_index
  /\ word_start_time' = g.word_start_time
  /\ hints_used_this_word' = g.hints_used_this_word
  /\ hint_timer_start_time' = g.hint_timer_start_time
  /\ is_hint_timer_active' = g.is_hint_timer_active
  /\ show_clue_on_screen' = g.show_clue_on_screen
  /\ previewed_letter_char' = g.previewed_letter_char
  /\ active_preview_letter_indices' = g.active_preview_letter_indices
  /\ pending_new_word_setup_time' = g.pending_new_word_setup_time
  /\ letter_states' = g.letter_states
  /\ letter_positions' = g.letter_positions
  /\ letter_velocities' = g.letter_velocities
  /\ original_letter_velocities' = g.original_letter_velocities
  /\ letter_preview_timers' = g.letter_preview_timers
  /\ letter_target_slot_indices' = g.letter_target_slot_indices
  /\ letter_feedback_flash_timers' = g.letter_feedback_flash_timers

\* ------------------------------------------------------------------------
\* New-word setup
\* ------------------------------------------------------------------------
\* ResetWordState that leaves the hint timer where the last word had it.
ResetWordStateKeepingHintTimer(g, current_time_ticks, word) ==
  LET player_idx == g.current_player_turn - 1
  IN [g EXCEPT
        !.target_word = word,
        !.displayed_word_chars = [k \in 1..Len(word) |-> "_"],
        !.current_letter_index = 0,
        !.word_start_time = current_time_ticks,
        !.hints_used_this_word = 0,
        !.show_clue_on_screen = TRUE,
        !.previewed_letter_char = None,
        !.active_preview_letter_indices = <<>>,
        !.player_failed_last_word =
           IF 0 <= player_idx /\ player_idx < Len(@)
           THEN [@ EXCEPT ![player_idx + 1] = FALSE] ELSE @]

\* Lines 192-208: the word is chosen and the word's state reset, before the
\* loop over the entities.
ResetWordState(g, current_time_ticks, word) ==
  LET player_idx == g.current_player_turn - 1
  IN [g EXCEPT
        !.target_word = word,
        !.displayed_word_chars = [k \in 1..Len(word) |-> "_"],
        !.current_letter_index = 0,
        !.word_start_time = current_time_ticks,
        !.hints_used_this_word = 0,
        !.hint_timer_start_time = current_time_ticks,
        !.is_hint_timer_active = TRUE,
        !.show_clue_on_screen = TRUE,
        !.previewed_letter_char = None,
        !.active_preview_letter_indices = <<>>,
        !.player_failed_last_word =
           IF 0 <= player_idx /\ player_idx < Len(@)
           THEN [@ EXCEPT ![player_idx + 1] = FALSE] ELSE @]

\* setup_new_word_for_active_player(current_time_ticks), with the outcome of
\* random.choice (word) and of the per-entity random draws (lay).  The loop
\* assigns letter_states[i] first; on a list shorter than num_letters that
\* assignment raises IndexError (shown for the lists as the module creates
\* them: empty, where nothing of the loop has run).
setup_new_word_for_active_player(g, current_time_ticks, word, lay) ==
  LET g1 == ResetWordState(g, current_time_ticks, word)
  IN IF Len(g.letter_states) < num_letters
     THEN [g1 EXCEPT !.exception = "IndexError"]
     ELSE [g1 EXCEPT
             !.letter_states = [i \in 1..num_letters |-> STATE_NORMAL],
             !.letter_positions = [i \in 1..num_letters |-> lay.pos],
             !.letter_velocities = [i \in 1..num_letters |-> lay.vel],
             !.original_letter_velocities = [i \in 1..num_letters |-> lay.vel],
             !.letter_preview_timers = [i \in 1..num_letters |-> 0],
             !.letter_target_slot_indices = [i \in 1..num_letters |-> -1],
             !.letter_feedback_flash_timers = [i \in 1..num_letters |-> 0]]

\* ------------------------------------------------------------------------
\* Key handling during game play
\* ------------------------------------------------------------------------
\* Line 376: the revert of a confirmation press, for the entities of idxs in
\* order (Python index idx - 1 < len(letter_states)).
RECURSIVE RevertConfirmed(_, _)
RevertConfirmed(g, idxs) ==
  IF idxs = <<>> THEN g
  ELSE LET idx == Head(idxs)
           g1 == IF idx <= Len(g.letter_states)
                 THEN [g EXCEPT
                         !.letter_states[idx] = STATE_NORMAL,
                         !.letter_velocities[idx] = g.original_letter_velocities[idx],
                         !.letter_preview_timers[idx] = 0]
                 ELSE g
       IN RevertConfirmed(g1, Tail(idxs))

\* RevertSuperseded that restores velocity and timer and leaves the state.
RECURSIVE RevertSupersededKeepingState(_, _)
RevertSupersededKeepingState(g, idxs) ==
  IF idxs = <<>> THEN g
  ELSE LET idx_old_preview == Head(idxs)
           g1 == IF idx_old_preview <= Len(g.letter_states)
                 THEN [g EXCEPT
                         !.letter_velocities[idx_old_preview] =
                            g.original_letter_velocities[idx_old_preview],
                         !.letter_preview_timers[idx_old_preview] = 0]
                 ELSE g
       IN RevertSupersededKeepingState(g1, Tail(idxs))

\* Lines 416-418: the revert of the entities a new preview supersedes.
RECURSIVE RevertSuperseded(_, _)
RevertSuperseded(g, idxs) ==
  IF idxs = <<>> THEN g
  ELSE LET idx_old_preview == Head(idxs)
           g1 == IF idx_old_preview <= Len(g.letter_states)
                 THEN [g EXCEPT
                         !.letter_states[idx_old_preview] = STATE_NORMAL,
                         !.letter_velocities[idx_old_preview] =
                            g.original_letter_velocities[idx_old_preview],
                         !.letter_preview_timers[idx_old_preview] = 0]
                 ELSE g
       IN RevertSuperseded(g1, Tail(idxs))

\* FlashConfirmed with the preview duration in place of the flash duration.
RECURSIVE FlashConfirmedForPreviewDuration(_, _, _)
FlashConfirmedForPreviewDuration(g, idxs, current_time_ticks) ==
  IF idxs = <<>> THEN g
  ELSE LET idx_flash == Head(idxs)
           g1 == IF idx_flash <= Len(g.letter_feedback_flash_timers)
                 THEN [g EXCEPT !.letter_feedback_flash_timers[idx_flash] =
                                   current_time_ticks + PREVIEW_DURATION_MS]
                 ELSE g
       IN FlashConfirmedForPreviewDuration(g1, Tail(idxs), current_time_ticks)

\* Lines 407-408 and 412-413: the failure flash on every confirmed entity.
RECURSIVE FlashConfirmed(_, _, _)
FlashConfirmed(g, idxs, current_time_ticks) ==
  IF idxs = <<>> THEN g
  ELSE LET idx_flash == Head(idxs)
           g1 == IF idx_flash <= Len(g.letter_feedback_flash_timers)
                 THEN [g EXCEPT !.letter_feedback_flash_timers[idx_flash] =
                                   current_time_ticks + FLASH_DURATION_MS]
                 ELSE g
       IN FlashConfirmed(g1, Tail(idxs), current_time_ticks)

\* Lines 384-385: the first confirmed entity that is Normal, 0 for the
\* code's -1.
RECURSIVE FirstNormal(_, _)
FirstNormal(g, idxs) ==
  IF idxs = <<>> THEN 0
  ELSE IF g.letter_states[Head(idxs)] = STATE_NORMAL THEN Head(idxs)
  ELSE FirstNormal(g, Tail(idxs))

\* Lines 394-404 and 476-487: the word is complete; score it and schedule the
\* next word.  The failed flag is cleared before the multiplier is computed,
\* the score and the pending time are assigned after it.
ScoreCompletedWord(g, current_time_ticks) ==
  LET player_idx == g.current_player_turn - 1
      g1 == IF 0 <= player_idx /\ player_idx < Len(g.player_failed_last_word)
            THEN [g EXCEPT !.player_failed_last_word[player_idx + 1] = FALSE]
            ELSE g
      time_taken_ms == current_time_ticks - g.word_start_time
      base_score == get_word_base_score(g.target_word)
      speed_mult == calculate_speed_multiplier(time_taken_ms, Len(g.target_word))
      score_for_this_word == (base_score * speed_mult.value) \div 1000
  IN IF speed_mult.raised # "none"
     THEN [g1 EXCEPT !.exception = speed_mult.raised]
     ELSE [g1 EXCEPT
             !.player_scores =
                IF 0 <= player_idx /\ player_idx < Len(@)
                THEN [@ EXCEPT ![player_idx + 1] = @ + score_for_this_word]
                ELSE @,
             !.pending_new_word_setup_time = current_time_ticks + NEW_WORD_DELAY_MS]

\* ClearConfirmedPreview that empties the list and keeps the character.
ClearConfirmedPreviewListOnly(g) ==
  [g EXCEPT !.active_preview_letter_indices = <<>>]

\* Line 377: a confirmation press ends the preview.
ClearConfirmedPreview(g) ==
  [g EXCEPT !.active_preview_letter_indices = <<>>,
            !.previewed_letter_char = None]

\* AdvanceCursor that wraps around at the end of the word.
AdvanceCursorWrapping(g) ==
  [g EXCEPT !.current_letter_index = (@ + 1) % Len(g.target_word)]

\* Lines 391 and 465: current_letter_index += 1.
AdvanceCursor(g) == [g EXCEPT !.current_letter_index = @ + 1]

\* Lines 373-413: the press is a confirmation of the previewed character.
ConfirmPress(g, pressed_char, current_time_ticks) ==
  LET confirmed_indices == g.active_preview_letter_indices
      g1 == ClearConfirmedPreview(RevertConfirmed(g, confirmed_indices))
  IN IF g1.target_word # <<>> /\ g1.current_letter_index < Len(g1.target_word)
     THEN LET expected_letter == g1.target_word[g1.current_letter_index + 1]
          IN IF pressed_char = expected_letter
             THEN LET animating_letter_index == FirstNormal(g1, confirmed_indices)
                      g2 == IF confirmed_indices # <<>> /\ animating_letter_index # 0
                            THEN [g1 EXCEPT
                                    !.letter_states[animating_letter_index] =
                                       STATE_ANIMATING_TO_SLOT,
                                    !.letter_target_slot_indices[animating_letter_index] =
                                       g1.current_letter_index]
                            ELSE g1
                      g3 == AdvanceCursor(g2)
                      g4 == IF g3.current_letter_index < Len(g3.target_word)
                            THEN [g3 EXCEPT
                                    !.hint_timer_start_time = current_time_ticks,
                                    !.is_hint_timer_active = TRUE]
                            ELSE [g3 EXCEPT !.is_hint_timer_active = FALSE]
                  IN IF g4.current_letter_index = Len(g4.target_word)
                     THEN ScoreCompletedWord(g4, current_time_ticks)
                     ELSE g4
             ELSE FlashConfirmed(g1, confirmed_indices, current_time_ticks)
     ELSE FlashConfirmed(g1, confirmed_indices, current_time_ticks)

\* PreviewEntity that halves the velocity the entity has, not the stored
\* original velocity.
PreviewEntityFromCurrentVelocity(g, i, current_time_ticks) ==
  LET x0 == g.letter_positions[i][1]
      y0 == g.letter_positions[i][2]
      x1 == IF x0 < 0 THEN 0 ELSE x0
      y1 == IF y0 < 0 THEN 0 ELSE y0
      x2 == IF x1 + ENLARGED_LETTER_SIZE * PosScale > window_width * PosScale
            THEN (window_width - ENLARGED_LETTER_SIZE) * PosScale ELSE x1
      y2 == IF y1 + ENLARGED_LETTER_SIZE * PosScale > window_height * PosScale
            THEN (window_height - ENLARGED_LETTER_SIZE) * PosScale ELSE y1
      cv == g.letter_velocities[i]
  IN [g EXCEPT
        !.letter_states[i] = STATE_PREVIEW,
        !.letter_positions[i] = <<x2, y2>>,
        !.letter_velocities[i] =
           << TruncDiv(cv[1] * PREVIEW_SPEED_FACTOR_X10, 10),
              TruncDiv(cv[2] * PREVIEW_SPEED_FACTOR_X10, 10) >>,
        !.letter_preview_timers[i] = current_time_ticks + PREVIEW_DURATION_MS,
        !.active_preview_letter_indices = Append(@, i)]

\* Lines 422-429, for one entity i: it becomes Previewed whatever its state.
PreviewEntity(g, i, current_time_ticks) ==
  LET x0 == g.letter_positions[i][1]
      y0 == g.letter_positions[i][2]
      x1 == IF x0 < 0 THEN 0 ELSE x0
      y1 == IF y0 < 0 THEN 0 ELSE y0
      x2 == IF x1 + ENLARGED_LETTER_SIZE * PosScale > window_width * PosScale
            THEN (window_width - ENLARGED_LETTER_SIZE) * PosScale ELSE x1
      y2 == IF y1 + ENLARGED_LETTER_SIZE * PosScale > window_height * PosScale
            THEN (window_height - ENLARGED_LETTER_SIZE) * PosScale ELSE y1
      ov == g.original_letter_velocities[i]
  IN [g EXCEPT
        !.letter_states[i] = STATE_PREVIEW,
        !.letter_positions[i] = <<x2, y2>>,
        !.letter_velocities[i] =
           << TruncDiv(ov[1] * PREVIEW_SPEED_FACTOR_X10, 10),
              TruncDiv(ov[2] * PREVIEW_SPEED_FACTOR_X10, 10) >>,
        !.letter_preview_timers[i] = current_time_ticks + PREVIEW_DURATION_MS,
        !.active_preview_letter_indices = Append(@, i)]

\* Lines 420-429: every entity whose letter is pressed_char, in index order.
RECURSIVE PreviewMatching(_, _, _, _)
PreviewMatching(g, i, pressed_char, current_time_ticks) ==
  IF i > num_letters THEN g
  ELSE PreviewMatching(
         IF letters[i] = pressed_char
         THEN PreviewEntity(g, i, current_time_ticks) ELSE g,
         i + 1, pressed_char, current_time_ticks)

\* NewPreviewPress that also restarts the hint timer.
NewPreviewPressRestartingHintTimer(g, pressed_char, current_time_ticks) ==
  LET g1 == IF g.previewed_letter_char # None
            THEN RevertSuperseded(g, g.active_preview_letter_indices)
            ELSE g
      g2 == [g1 EXCEPT
               !.active_preview_letter_indices = <<>>,
               !.previewed_letter_char = pressed_char,
               !.hint_timer_start_time = current_time_ticks]
  IN PreviewMatching(g2, 1, pressed_char, current_time_ticks)

\* Lines 414-429: the press starts a new preview.
NewPreviewPress(g, pressed_char, current_time_ticks) ==
  LET g1 == IF g.previewed_letter_char # None
            THEN RevertSuperseded(g, g.active_preview_letter_indices)
            ELSE g
      g2 == [g1 EXCEPT
               !.active_preview_letter_indices = <<>>,
               !.previewed_letter_char = pressed_char]
  IN PreviewMatching(g2, 1, pressed_char, current_time_ticks)

\* handle_events_game_play that takes letter keys while a new-word transition
\* is pending.
handle_events_game_play_while_pending(g, key, current_time_ticks) ==
  IF key = "C"
  THEN [g EXCEPT !.show_clue_on_screen = ~@]
  ELSE IF g.previewed_letter_char # None /\ key = g.previewed_letter_char
  THEN ConfirmPress(g, key, current_time_ticks)
  ELSE NewPreviewPress(g, key, current_time_ticks)

\* handle_events_game_play for a KEYDOWN of the letter key `key` (its
\* upper-case character): the C key toggles the clue and is not looked at
\* as a letter; any other letter is looked at only while no new-word
\* transition is pending.
handle_events_game_play(g, key, current_time_ticks) ==
  IF key = "C"
  THEN [g EXCEPT !.show_clue_on_screen = ~@]
  ELSE IF g.pending_new_word_setup_time = 0
  THEN IF g.previewed_letter_char # None /\ key = g.previewed_letter_char
       THEN ConfirmPress(g, key, current_time_ticks)
       ELSE NewPreviewPress(g, key, current_time_ticks)
  ELSE g

\* ------------------------------------------------------------------------
\* The per-frame update of game play
\* ------------------------------------------------------------------------
\* PendingTransition with a game-over check: a two-player match ends when
\* the second player's word is over.
PendingTransitionWithGameOver(g, mode, current_time_ticks, word, lay) ==
  IF g.pending_new_word_setup_time > 0
     /\ current_time_ticks >= g.pending_new_word_setup_time
  THEN LET g1 == [g EXCEPT !.pending_new_word_setup_time = 0]
       IN IF mode = GAME_MODE_2P_VERSUS
          THEN [g1 EXCEPT !.current_game_state =
                  IF g.current_player_turn = 2 THEN STATE_VERSUS_GAME_OVER
                  ELSE STATE_SHOW_TURN_TRANSITION]
          ELSE setup_new_word_for_active_player(g1, current_time_ticks, word, lay)
  ELSE g

\* Lines 441-447: a due new-word transition.
PendingTransition(g, mode, current_time_ticks, word, lay) ==
  IF g.pending_new_word_setup_time > 0
     /\ current_time_ticks >= g.pending_new_word_setup_time
  THEN LET g1 == [g EXCEPT !.pending_new_word_setup_time = 0]
       IN IF mode = GAME_MODE_2P_VERSUS
          THEN [g1 EXCEPT !.current_game_state = STATE_SHOW_TURN_TRANSITION]
          ELSE setup_new_word_for_active_player(g1, current_time_ticks, word, lay)
  ELSE g

\* Lines 454-457: the entity of correct_letter_char that is Normal, else the
\* one that is Previewed; 0 for the code's -1.
HintCandidate(g, correct_letter_char) ==
  LET normal == {i \in 1..num_letters :
                   letters[i] = correct_letter_char
                   /\ g.letter_states[i] = STATE_NORMAL}
      preview == {i \in 1..num_letters :
                    letters[i] = correct_letter_char
                    /\ g.letter_states[i] = STATE_PREVIEW}
      least(S) == CHOOSE i \in S : \A j \in S : i <= j
  IN IF normal # {} THEN least(normal)
     ELSE IF preview # {} THEN least(preview)
     ELSE 0

\* list.remove(idx): the first occurrence.
RECURSIVE RemoveFirst(_, _)
RemoveFirst(s, e) ==
  IF s = <<>> THEN <<>>
  ELSE IF Head(s) = e THEN Tail(s)
  ELSE <<Head(s)>> \o RemoveFirst(Tail(s), e)

InSeq(s, e) == \E k \in 1..Len(s) : s[k] = e

\* FailWord that takes a point from the active player.
FailWordPenalised(g, current_time_ticks) ==
  LET player_idx_fail == g.current_player_turn - 1
  IN [g EXCEPT
        !.player_failed_last_word =
           IF 0 <= player_idx_fail /\ player_idx_fail < Len(@)
           THEN [@ EXCEPT ![player_idx_fail + 1] = TRUE] ELSE @,
        !.player_scores =
           IF 0 <= player_idx_fail /\ player_idx_fail < Len(@)
           THEN [@ EXCEPT ![player_idx_fail + 1] = @ - 1] ELSE @,
        !.pending_new_word_setup_time = current_time_ticks + NEW_WORD_DELAY_MS,
        !.is_hint_timer_active = FALSE]

\* FailWord that marks the active player as failed and the other as not.
FailWordOnlyOneFailed(g, current_time_ticks) ==
  LET player_idx_fail == g.current_player_turn - 1
  IN [g EXCEPT
        !.player_failed_last_word =
           IF 0 <= player_idx_fail /\ player_idx_fail < Len(@)
           THEN [k \in 1..Len(@) |-> k = player_idx_fail + 1] ELSE @,
        !.pending_new_word_setup_time = current_time_ticks + NEW_WORD_DELAY_MS,
        !.is_hint_timer_active = FALSE]

\* FailWord that marks the failure and schedules nothing.
FailWordUnscheduled(g, current_time_ticks) ==
  LET player_idx_fail == g.current_player_turn - 1
  IN [g EXCEPT
        !.player_failed_last_word =
           IF 0 <= player_idx_fail /\ player_idx_fail < Len(@)
           THEN [@ EXCEPT ![player_idx_fail + 1] = TRUE] ELSE @,
        !.is_hint_timer_active = FALSE]

\* Lines 468-475: the last hint is used and the word is incomplete.
FailWord(g, current_time_ticks) ==
  LET player_idx_fail == g.current_player_turn - 1
  IN [g EXCEPT
        !.player_failed_last_word =
           IF 0 <= player_idx_fail /\ player_idx_fail < Len(@)
           THEN [@ EXCEPT ![player_idx_fail + 1] = TRUE] ELSE @,
        !.pending_new_word_setup_time = current_time_ticks + NEW_WORD_DELAY_MS,
        !.is_hint_timer_active = FALSE]

\* ConsumeHint that sends the entity to the slot after the cursor's.
ConsumeHintOneSlotOn(g, idx) ==
  [g EXCEPT
     !.letter_states[idx] = STATE_ANIMATING_TO_SLOT,
     !.letter_target_slot_indices[idx] = g.current_letter_index + 1,
     !.hints_used_this_word = @ + 1]

\* ConsumeHint that counts the reveal as two hints.
ConsumeHintTwice(g, idx) ==
  [g EXCEPT
     !.letter_states[idx] = STATE_ANIMATING_TO_SLOT,
     !.letter_target_slot_indices[idx] = g.current_letter_index,
     !.hints_used_this_word = @ + 2]

\* Lines 463 and 465: the entity is sent to the slot at the cursor and one
\* hint is used.
ConsumeHint(g, idx) ==
  [g EXCEPT
     !.letter_states[idx] = STATE_ANIMATING_TO_SLOT,
     !.letter_target_slot_indices[idx] = g.current_letter_index,
     !.hints_used_this_word = @ + 1]

\* RevealByHint that takes a Previewed entity off the preview list and
\* leaves previewed_letter_char as it is.
RevealByHintKeepingChar(g, idx, current_time_ticks) ==
  LET act == IF g.letter_states[idx] = STATE_PREVIEW
                /\ g.previewed_letter_char = letters[idx]
                /\ InSeq(g.active_preview_letter_indices, idx)
             THEN RemoveFirst(g.active_preview_letter_indices, idx)
             ELSE g.active_preview_letter_indices
      g1 == [g EXCEPT !.active_preview_letter_indices = act]
      g2 == AdvanceCursor(ConsumeHint(g1, idx))
  IN IF g2.hints_used_this_word >= HINTS_PER_WORD
        /\ g2.current_letter_index < Len(g2.target_word)
     THEN FailWord(g2, current_time_ticks)
     ELSE IF g2.current_letter_index = Len(g2.target_word)
     THEN LET g3 == ScoreCompletedWord(g2, current_time_ticks)
          IN IF g3.exception # "none" THEN g3
             ELSE [g3 EXCEPT !.is_hint_timer_active = FALSE]
     ELSE IF g2.hints_used_this_word < HINTS_PER_WORD
     THEN [g2 EXCEPT
             !.hint_timer_start_time = current_time_ticks,
             !.is_hint_timer_active = TRUE]
     ELSE [g2 EXCEPT !.is_hint_timer_active = FALSE]

\* Lines 458-490: the hint reveals the entity idx.
RevealByHint(g, idx, current_time_ticks) ==
  LET act == IF g.letter_states[idx] = STATE_PREVIEW
                /\ g.previewed_letter_char = letters[idx]
                /\ InSeq(g.active_preview_letter_indices, idx)
             THEN RemoveFirst(g.active_preview_letter_indices, idx)
             ELSE g.active_preview_letter_indices
      g1 == IF g.letter_states[idx] = STATE_PREVIEW
               /\ g.previewed_letter_char = letters[idx]
            THEN [g EXCEPT
                    !.active_preview_letter_indices = act,
                    !.previewed_letter_char = IF act = <<>> THEN None ELSE @]
            ELSE g
      g2 == AdvanceCursor(ConsumeHint(g1, idx))
  IN IF g2.hints_used_this_word >= HINTS_PER_WORD
        /\ g2.current_letter_index < Len(g2.target_word)
     THEN FailWord(g2, current_time_ticks)
     ELSE IF g2.current_letter_index = Len(g2.target_word)
     THEN LET g3 == ScoreCompletedWord(g2, current_time_ticks)
          IN IF g3.exception # "none" THEN g3
             ELSE [g3 EXCEPT !.is_hint_timer_active = FALSE]
     ELSE IF g2.hints_used_this_word < HINTS_PER_WORD
     THEN [g2 EXCEPT
             !.hint_timer_start_time = current_time_ticks,
             !.is_hint_timer_active = TRUE]
     ELSE [g2 EXCEPT !.is_hint_timer_active = FALSE]

\* RestartHintTimer that also counts a hint as used.
RestartHintTimerUsingHint(g, current_time_ticks) ==
  [g EXCEPT !.hint_timer_start_time = current_time_ticks,
            !.hints_used_this_word = @ + 1]

\* Line 491: no entity of the expected letter is Normal or Previewed; the
\* hint timer starts again.
RestartHintTimer(g, current_time_ticks) ==
  [g EXCEPT !.hint_timer_start_time = current_time_ticks]

\* Whether the hint timer fires in this update (lines 449-451).
HintDue(g, current_time_ticks) ==
  /\ g.is_hint_timer_active
  /\ g.hints_used_this_word < HINTS_PER_WORD
  /\ g.pending_new_word_setup_time = 0
  /\ current_time_ticks - g.hint_timer_start_time >= HINT_TIMER_DURATION_MS

\* Lines 449-493: the hint timer.
HintLogic(g, current_time_ticks) ==
  LET g1 ==
        IF HintDue(g, current_time_ticks)
        THEN IF g.current_letter_index < Len(g.target_word)
             THEN LET correct_letter_char == g.target_word[g.current_letter_index + 1]
                      letter_to_animate_index == HintCandidate(g, correct_letter_char)
                  IN IF letter_to_animate_index # 0
                     THEN RevealByHint(g, letter_to_animate_index, current_time_ticks)
                     ELSE RestartHintTimer(g, current_time_ticks)
             ELSE [g EXCEPT !.is_hint_timer_active = FALSE]
        ELSE g
  IN IF g1.exception # "none" THEN g1
     ELSE IF g1.hints_used_this_word >= HINTS_PER_WORD
     THEN [g1 EXCEPT !.is_hint_timer_active = FALSE]
     ELSE g1

\* ExpireFrom that does not restore the velocity of a timed-out preview.
RECURSIVE ExpireFromKeepingVelocity(_, _, _, _)
ExpireFromKeepingVelocity(g, idxs, still, current_time_ticks) ==
  IF idxs = <<>> THEN [g EXCEPT !.active_preview_letter_indices = still]
  ELSE LET i == Head(idxs)
       IN IF i <= Len(g.letter_states) /\ g.letter_states[i] = STATE_PREVIEW
          THEN IF current_time_ticks > g.letter_preview_timers[i]
                  /\ g.letter_preview_timers[i] # 0
               THEN ExpireFromKeepingVelocity(
                      [g EXCEPT
                         !.letter_states[i] = STATE_NORMAL,
                         !.letter_preview_timers[i] = 0],
                      Tail(idxs), still, current_time_ticks)
               ELSE ExpireFromKeepingVelocity(
                      g, Tail(idxs), Append(still, i), current_time_ticks)
          ELSE ExpireFromKeepingVelocity(g, Tail(idxs), still, current_time_ticks)

\* Lines 497-501: the previews that have timed out go back to Normal; the
\* result is the record and the indices still in preview.
RECURSIVE ExpireFrom(_, _, _, _)
ExpireFrom(g, idxs, still, current_time_ticks) ==
  IF idxs = <<>> THEN [g EXCEPT !.active_preview_letter_indices = still]
  ELSE LET i == Head(idxs)
       IN IF i <= Len(g.letter_states) /\ g.letter_states[i] = STATE_PREVIEW
          THEN IF current_time_ticks > g.letter_preview_timers[i]
                  /\ g.letter_preview_timers[i] # 0
               THEN ExpireFrom(
                      [g EXCEPT
                         !.letter_states[i] = STATE_NORMAL,
                         !.letter_velocities[i] = g.original_letter_velocities[i],
                         !.letter_preview_timers[i] = 0],
                      Tail(idxs), still, current_time_ticks)
               ELSE ExpireFrom(g, Tail(idxs), Append(still, i), current_time_ticks)
          ELSE ExpireFrom(g, Tail(idxs), still, current_time_ticks)

\* PreviewExpiry that leaves previewed_letter_char set when the last preview
\* has timed out.
PreviewExpiryKeepingChar(g, current_time_ticks) ==
  IF g.previewed_letter_char # None /\ g.active_preview_letter_indices # <<>>
  THEN ExpireFrom(g, g.active_preview_letter_indices, <<>>, current_time_ticks)
  ELSE g

\* Lines 495-503: preview expiry.
PreviewExpiry(g, current_time_ticks) ==
  IF g.previewed_letter_char # None /\ g.active_preview_letter_indices # <<>>
  THEN LET g1 == ExpireFrom(g, g.active_preview_letter_indices, <<>>,
                            current_time_ticks)
       IN IF g1.active_preview_letter_indices = <<>>
          THEN [g1 EXCEPT !.previewed_letter_char = None]
          ELSE g1
  ELSE g

\* MoveEntity that writes the placed entity's letter one cell further on.
MoveEntityWritingNextCell(g, i) ==
  LET x == g.letter_positions[i][1]
      y == g.letter_positions[i][2]
      vx == g.letter_velocities[i][1]
      vy == g.letter_velocities[i][2]
      state == g.letter_states[i]
      current_letter_draw_size ==
        IF state = STATE_PREVIEW THEN ENLARGED_LETTER_SIZE ELSE default_letter_size
  IN IF state = STATE_ANIMATING_TO_SLOT
     THEN LET slot_idx == g.letter_target_slot_indices[i]
          IN IF slot_idx # -1
             THEN LET target_pos ==
                        get_slot_position(slot_idx, g.target_word, g.displayed_word_chars)
                      dx == target_pos[1] - x
                      dy == target_pos[2] - y
                      dist2 == dx * dx + dy * dy
                      speed == ANIMATION_SPEED * PosScale
                  IN IF dist2 < speed * speed
                     THEN [g EXCEPT
                             !.letter_states[i] = STATE_PLACED,
                             !.letter_velocities[i] = <<0, 0>>,
                             !.displayed_word_chars =
                                IF 0 <= slot_idx /\ slot_idx + 1 < Len(@)
                                THEN [@ EXCEPT ![slot_idx + 2] = letters[i]] ELSE @,
                             !.letter_positions[i] = target_pos]
                     ELSE LET dist == ISqrt(dist2)
                              avx == TruncDiv(dx * speed, dist)
                              avy == TruncDiv(dy * speed, dist)
                          IN [g EXCEPT !.letter_positions[i] = <<x + avx, y + avy>>]
             ELSE [g EXCEPT !.letter_states[i] = STATE_NORMAL]
     ELSE IF state = STATE_NORMAL \/ state = STATE_PREVIEW
     THEN LET nx == x + vx
              ny == y + vy
              nvx == IF nx < 0 \/ nx > (window_width - current_letter_draw_size) * PosScale
                     THEN -vx ELSE vx
              nvy == IF ny < 0 \/ ny > (window_height - current_letter_draw_size) * PosScale
                     THEN -vy ELSE vy
          IN [g EXCEPT
                !.letter_velocities[i] = <<nvx, nvy>>,
                !.letter_positions[i] = <<nx, ny>>]
     ELSE g

\* MoveEntity that also moves the cursor on when it places an entity.
MoveEntityAdvancingCursor(g, i) ==
  LET x == g.letter_positions[i][1]
      y == g.letter_positions[i][2]
      vx == g.letter_velocities[i][1]
      vy == g.letter_velocities[i][2]
      state == g.letter_states[i]
      current_letter_draw_size ==
        IF state = STATE_PREVIEW THEN ENLARGED_LETTER_SIZE ELSE default_letter_size
  IN IF state = STATE_ANIMATING_TO_SLOT
     THEN LET slot_idx == g.letter_target_slot_indices[i]
          IN IF slot_idx # -1
             THEN LET target_pos ==
                        get_slot_position(slot_idx, g.target_word, g.displayed_word_chars)
                      dx == target_pos[1] - x
                      dy == target_pos[2] - y
                      dist2 == dx * dx + dy * dy
                      speed == ANIMATION_SPEED * PosScale
                  IN IF dist2 < speed * speed
                     THEN [g EXCEPT
                             !.letter_states[i] = STATE_PLACED,
                             !.current_letter_index = @ + 1,
                             !.letter_velocities[i] = <<0, 0>>,
                             !.displayed_word_chars =
                                IF 0 <= slot_idx /\ slot_idx < Len(@)
                                THEN [@ EXCEPT ![slot_idx + 1] = letters[i]] ELSE @,
                             !.letter_positions[i] = target_pos]
                     ELSE LET dist == ISqrt(dist2)
                              avx == TruncDiv(dx * speed, dist)
                              avy == TruncDiv(dy * speed, dist)
                          IN [g EXCEPT !.letter_positions[i] = <<x + avx, y + avy>>]
             ELSE [g EXCEPT !.letter_states[i] = STATE_NORMAL]
     ELSE IF state = STATE_NORMAL \/ state = STATE_PREVIEW
     THEN LET nx == x + vx
              ny == y + vy
              nvx == IF nx < 0 \/ nx > (window_width - current_letter_draw_size) * PosScale
                     THEN -vx ELSE vx
              nvy == IF ny < 0 \/ ny > (window_height - current_letter_draw_size) * PosScale
                     THEN -vy ELSE vy
          IN [g EXCEPT
                !.letter_velocities[i] = <<nvx, nvy>>,
                !.letter_positions[i] = <<nx, ny>>]
     ELSE g

\* Lines 506-524 for entity i.
MoveEntity(g, i) ==
  LET x == g.letter_positions[i][1]
      y == g.letter_positions[i][2]
      vx == g.letter_velocities[i][1]
      vy == g.letter_velocities[i][2]
      state == g.letter_states[i]
      current_letter_draw_size ==
        IF state = STATE_PREVIEW THEN ENLARGED_LETTER_SIZE ELSE default_letter_size
  IN IF state = STATE_ANIMATING_TO_SLOT
     THEN LET slot_idx == g.letter_target_slot_indices[i]
          IN IF slot_idx # -1
             THEN LET target_pos ==
                        get_slot_position(slot_idx, g.target_word, g.displayed_word_chars)
                      dx == target_pos[1] - x
                      dy == target_pos[2] - y
                      dist2 == dx * dx + dy * dy
                      speed == ANIMATION_SPEED * PosScale
                  IN IF dist2 < speed * speed
                     THEN [g EXCEPT
                             !.letter_states[i] = STATE_PLACED,
                             !.letter_velocities[i] = <<0, 0>>,
                             !.displayed_word_chars =
                                IF 0 <= slot_idx /\ slot_idx < Len(@)
                                THEN [@ EXCEPT ![slot_idx + 1] = letters[i]] ELSE @,
                             !.letter_positions[i] = target_pos]
                     ELSE LET dist == ISqrt(dist2)
                              avx == TruncDiv(dx * speed, dist)
                              avy == TruncDiv(dy * speed, dist)
                          IN [g EXCEPT !.letter_positions[i] = <<x + avx, y + avy>>]
             ELSE [g EXCEPT !.letter_states[i] = STATE_NORMAL]
     ELSE IF state = STATE_NORMAL \/ state = STATE_PREVIEW
     THEN LET nx == x + vx
              ny == y + vy
              nvx == IF nx < 0 \/ nx > (window_width - current_letter_draw_size) * PosScale
                     THEN -vx ELSE vx
              nvy == IF ny < 0 \/ ny > (window_height - current_letter_draw_size) * PosScale
                     THEN -vy ELSE vy
          IN [g EXCEPT
                !.letter_velocities[i] = <<nvx, nvy>>,
                !.letter_positions[i] = <<nx, ny>>]
     ELSE g

\* Lines 505-524: the entities in index order (a placement changes the text
\* that positions the slots of the entities after it).
RECURSIVE MoveFrom(_, _)
MoveFrom(g, i) ==
  IF i > num_letters THEN g
  ELSE LET Rest(moved) == MoveFrom(moved, i + 1)
       IN Then(MoveEntity(g, i), Rest)

\* update_game_play_logic(current_time_ticks); an exception ends it where it
\* is raised.
update_game_play_logic(g, mode, current_time_ticks, word, lay) ==
  LET Movement(g3) ==
        IF g3.exception # "none" THEN g3 ELSE MoveFrom(g3, 1)
      Previews(g2) ==
        Then(IF g2.exception # "none" THEN g2
             ELSE PreviewExpiry(g2, current_time_ticks), Movement)
      Hints(g1) ==
        Then(IF g1.exception # "none" THEN g1
             ELSE HintLogic(g1, current_time_ticks), Previews)
  IN Then(PendingTransition(g, mode, current_time_ticks, word, lay), Hints)

\* ------------------------------------------------------------------------
\* Initial states
\* ------------------------------------------------------------------------
\* "Player n" as the characters of the string.
DefaultName(n) == <<"P", "l", "a", "y", "e", "r", " ", n>>

\* Everything the module level assigns except the eight per-entity lists.
InitGlobals ==
  /\ running = TRUE
  /\ exception = "none"
  /\ clock = 0
  /\ current_time = 0
  /\ current_game_state = STATE_MAIN_MENU
  /\ current_game_mode = GAME_MODE_1P
  /\ current_player_turn = 1
  /\ player_names = <<DefaultName("1"), DefaultName("2")>>
  /\ player_scores = <<0, 0>>
  /\ input_active_player = 0
  /\ player_name_inputs = << <<>>, <<>> >>
  /\ cursor_visible = TRUE
  /\ cursor_timer = 0
  /\ player_failed_last_word = <<FALSE, FALSE>>
  /\ target_word = <<>>
  /\ displayed_word_chars = <<>>
  /\ current_letter_index = 0
  /\ word_start_time = 0
  /\ hints_used_this_word = 0
  /\ hint_timer_start_time = 0
  /\ is_hint_timer_active = FALSE
  /\ show_clue_on_screen = TRUE
  /\ previewed_letter_char = None
  /\ active_preview_letter_indices = <<>>
  /\ pending_new_word_setup_time = 0

\* The per-entity lists as lines 108-110 create them: empty.  No statement
\* of the program appends to them.
InitLoad ==
  /\ InitGlobals
  /\ letter_states = <<>>
  /\ letter_positions = <<>>
  /\ letter_velocities = <<>>
  /\ original_letter_velocities = <<>>
  /\ letter_preview_timers = <<>>
  /\ letter_target_slot_indices = <<>>
  /\ letter_feedback_flash_timers = <<>>

\* The per-entity lists holding one entry per letter, which is what every
\* loop over range(num_letters) indexes: the swarm created at startup.
SwarmCreated ==
  /\ letter_states = [i \in 1..num_letters |-> STATE_NORMAL]
  /\ letter_positions = [i \in 1..num_letters |-> <<0, 0>>]
  /\ letter_velocities = [i \in 1..num_letters |-> <<0, 0>>]
  /\ original_letter_velocities = [i \in 1..num_letters |-> <<0, 0>>]
  /\ letter_preview_timers = [i \in 1..num_letters |-> 0]
  /\ letter_target_slot_indices = [i \in 1..num_letters |-> -1]
  /\ letter_feedback_flash_timers = [i \in 1..num_letters |-> 0]

Init == InitGlobals /\ SwarmCreated

\* ------------------------------------------------------------------------
\* Actions: one per event handler, and the frame's update
\* ------------------------------------------------------------------------
Alive == running /\ exception = "none"

main_menu_buttons ==
  [ b \in {"1P_Game", "2P_Game", "Leaderboard", "Quit"} |->
      IF b = "1P_Game"
      THEN [action_state |-> STATE_PLAYER_NAME_INPUT, mode |-> GAME_MODE_1P]
      ELSE IF b = "2P_Game"
      THEN [action_state |-> STATE_PLAYER_NAME_INPUT, mode |-> GAME_MODE_2P_VERSUS]
      ELSE IF b = "Leaderboard"
      THEN [action_state |-> STATE_LEADERBOARD_DISPLAY, mode |-> None]
      ELSE [action_state |-> ACTION_QUIT, mode |-> None] ]

\* handle_events_main_menu: a left click on button b.  The session reset is
\* the second definition of setup_new_game_session (line 739), called with
\* current_game_state already STATE_PLAYER_NAME_INPUT; its player_names is
\* a local.
MainMenuClick(b) ==
  LET button == main_menu_buttons[b]
      starts == button.action_state = STATE_PLAYER_NAME_INPUT
  IN /\ Alive
     /\ current_game_state = STATE_MAIN_MENU
     /\ current_game_mode' = IF button.mode # None THEN button.mode ELSE current_game_mode
     /\ running' = (button.action_state # ACTION_QUIT)
     /\ current_game_state' =
          IF button.action_state = ACTION_QUIT THEN current_game_state
          ELSE button.action_state
     /\ player_scores' = IF starts THEN <<0, 0>> ELSE player_scores
     /\ current_player_turn' = IF starts THEN 1 ELSE current_player_turn
     /\ player_name_inputs' = IF starts THEN << <<>>, <<>> >> ELSE player_name_inputs
     /\ input_active_player' = IF starts THEN 0 ELSE input_active_player
     /\ player_failed_last_word' =
          IF starts THEN <<FALSE, FALSE>> ELSE player_failed_last_word
     /\ pending_new_word_setup_time' = IF starts THEN 0 ELSE pending_new_word_setup_time
     /\ UNCHANGED << exception, clock, current_time, player_names,
                     cursor_visible, cursor_timer,
                     target_word, displayed_word_chars, current_letter_index,
                     word_start_time, hints_used_this_word, hint_timer_start_time,
                     is_hint_timer_active, show_clue_on_screen,
                     previewed_letter_char, active_preview_letter_indices,
                     letter_states, letter_positions, letter_velocities,
                     original_letter_velocities, letter_preview_timers,
                     letter_target_slot_indices, letter_feedback_flash_timers >>

\* str.strip() for a name of letters and spaces.
RECURSIVE StripLeft(_)
StripLeft(s) == IF s # <<>> /\ Head(s) = " " THEN StripLeft(Tail(s)) ELSE s

RECURSIVE StripRight(_)
StripRight(s) ==
  IF s # <<>> /\ s[Len(s)] = " " THEN StripRight(SubSeq(s, 1, Len(s) - 1)) ELSE s

Strip(s) == StripRight(StripLeft(s))

\* handle_events_player_name_input, a printable key ch.
NameType(ch) ==
  LET k == input_active_player + 1
  IN /\ Alive
     /\ current_game_state = STATE_PLAYER_NAME_INPUT
     /\ Len(player_name_inputs[k]) < MAX_NAME_LENGTH
     /\ Len(player_name_inputs[k]) < MaxTyped
     /\ player_name_inputs' = [player_name_inputs EXCEPT ![k] = Append(@, ch)]
     /\ UNCHANGED << running, exception, clock, current_time,
                     current_game_state, current_game_mode, current_player_turn,
                     player_scores, player_failed_last_word, player_names,
                     input_active_player, cursor_visible, cursor_timer,
                     target_word, displayed_word_chars, current_letter_index,
                     word_start_time, hints_used_this_word, hint_timer_start_time,
                     is_hint_timer_active, show_clue_on_screen,
                     previewed_letter_char, active_preview_letter_indices,
                     pending_new_word_setup_time,
                     letter_states, letter_positions, letter_velocities,
                     original_letter_velocities, letter_preview_timers,
                     letter_target_slot_indices, letter_feedback_flash_timers >>

\* handle_events_player_name_input, K_BACKSPACE.
NameBackspace ==
  LET k == input_active_player + 1
  IN /\ Alive
     /\ current_game_state = STATE_PLAYER_NAME_INPUT
     /\ player_name_inputs[k] # <<>>
     /\ player_name_inputs' =
          [player_name_inputs EXCEPT ![k] = SubSeq(@, 1, Len(@) - 1)]
     /\ UNCHANGED << running, exception, clock, current_time,
                     current_game_state, current_game_mode, current_player_turn,
                     player_scores, player_failed_last_word, player_names,
                     input_active_player, cursor_visible, cursor_timer,
                     target_word, displayed_word_chars, current_letter_index,
                     word_start_time, hints_used_this_word, hint_timer_start_time,
                     is_hint_timer_active, show_clue_on_screen,
                     previewed_letter_char, active_preview_letter_indices,
                     pending_new_word_setup_time,
                     letter_states, letter_positions, letter_velocities,
                     original_letter_velocities, letter_preview_timers,
                     letter_target_slot_indices, letter_feedback_flash_timers >>

\* handle_events_player_name_input, K_RETURN: the name is fixed; after the
\* last name the first word is set up, at a fresh read of the clock, and the
\* game starts.
NameEnter(lag, w, lay) ==
  LET k == input_active_player + 1
      current_name == Strip(player_name_inputs[k])
      names1 == [player_names EXCEPT ![k] =
                   IF current_name # <<>> THEN current_name
                   ELSE DefaultName(IF k = 1 THEN "1" ELSE "2")]
      last == current_game_mode = GAME_MODE_1P \/ input_active_player = 1
      names2 == IF last /\ current_game_mode = GAME_MODE_1P
                   /\ names1[2] # DefaultName("2")
                THEN [names1 EXCEPT ![2] = DefaultName("2")] ELSE names1
      g == setup_new_word_for_active_player(
             Globals, clock + lag, simple_words[w], lay)
  IN /\ Alive
     /\ current_game_state = STATE_PLAYER_NAME_INPUT
     /\ player_names' = names2
     /\ input_active_player' = IF last THEN input_active_player ELSE 1
     /\ Store(IF ~last THEN Globals
              ELSE IF g.exception # "none" THEN g
              ELSE [g EXCEPT !.current_game_state = STATE_GAME_PLAY])
     /\ clock' = IF last THEN clock + lag ELSE clock
     /\ UNCHANGED << running, current_time, current_game_mode,
                     player_name_inputs, cursor_visible, cursor_timer >>

\* handle_events_game_play, KEYDOWN of a letter key.
GamePlayKey(key) ==
  /\ Alive
  /\ current_game_state = STATE_GAME_PLAY
  /\ \E g \in {handle_events_game_play(Globals, key, current_time)} : Store(g)
  /\ UNCHANGED << running, clock, current_time, current_game_mode,
                  player_names, player_name_inputs, input_active_player,
                  cursor_visible, cursor_timer >>

\* handle_events_game_play, K_ESCAPE.
GamePlayEscape ==
  /\ Alive
  /\ current_game_state = STATE_GAME_PLAY
  /\ Store([Globals EXCEPT !.current_game_state = STATE_MAIN_MENU])
  /\ UNCHANGED << running, clock, current_time, current_game_mode,
                  player_names, player_name_inputs, input_active_player,
                  cursor_visible, cursor_timer >>

\* handle_events_show_turn_transition, any key or a left click: the other
\* player's word is set up at a fresh read of the clock.
TurnTransitionKey(lag, w, lay) ==
  LET g0 == [Globals EXCEPT !.current_player_turn = IF @ = 1 THEN 2 ELSE 1]
      g == setup_new_word_for_active_player(
             g0, clock + lag, simple_words[w], lay)
  IN /\ Alive
     /\ current_game_state = STATE_SHOW_TURN_TRANSITION
     /\ Store(IF g.exception # "none" THEN g
              ELSE [g EXCEPT !.current_game_state = STATE_GAME_PLAY])
     /\ clock' = clock + lag
     /\ UNCHANGED << running, current_time, current_game_mode,
                     player_names, player_name_inputs, input_active_player,
                     cursor_visible, cursor_timer >>

\* handle_events_leaderboard_display, K_RETURN.
LeaderboardEnter ==
  /\ Alive
  /\ current_game_state = STATE_LEADERBOARD_DISPLAY
  /\ Store([Globals EXCEPT !.current_game_state = STATE_MAIN_MENU])
  /\ UNCHANGED << running, clock, current_time, current_game_mode,
                  player_names, player_name_inputs, input_active_player,
                  cursor_visible, cursor_timer >>

\* A pygame.QUIT event, in any state.
QuitEvent ==
  /\ Alive
  /\ running' = FALSE
  /\ UNCHANGED << exception, clock, current_time,
                  current_game_state, current_game_mode, current_player_turn,
                  player_scores, player_failed_last_word, player_names,
                  player_name_inputs, input_active_player,
                  cursor_visible, cursor_timer,
                  target_word, displayed_word_chars, current_letter_index,
                  word_start_time, hints_used_this_word, hint_timer_start_time,
                  is_hint_timer_active, show_clue_on_screen,
                  previewed_letter_char, active_preview_letter_indices,
                  pending_new_word_setup_time,
                  letter_states, letter_positions, letter_velocities,
                  original_letter_velocities, letter_preview_timers,
                  letter_target_slot_indices, letter_feedback_flash_timers >>

\* The rest of a game-play frame after its events, update_game_play_logic
\* with the frame's time sample, and the next frame's read of the clock,
\* d milliseconds later.  w and lay are what the random draws give if this
\* update sets up a new word.
TickGamePlay(d, w, lay) ==
  /\ Alive
  /\ current_game_state = STATE_GAME_PLAY
  /\ \E g \in {update_game_play_logic(
                  Globals, current_game_mode, current_time, simple_words[w], lay)} :
       /\ Store(g)
       /\ clock' = IF g.exception # "none" THEN clock ELSE clock + d
       /\ current_time' = IF g.exception # "none" THEN current_time ELSE clock + d
  /\ UNCHANGED << running, current_game_mode,
                     player_names, player_name_inputs, input_active_player,
                     cursor_visible, cursor_timer >>

\* The rest of a frame on a screen other than game play, and the next
\* frame's read of the clock: update_player_name_input_logic blinks the
\* cursor on the name screen, the other screens have no update.
TickMenu(d) ==
  /\ Alive
  /\ current_game_state # STATE_GAME_PLAY
  /\ IF current_game_state = STATE_PLAYER_NAME_INPUT
        /\ current_time - cursor_timer > CURSOR_BLINK_RATE_MS
     THEN cursor_timer' = current_time /\ cursor_visible' = ~cursor_visible
     ELSE UNCHANGED <<cursor_timer, cursor_visible>>
  /\ clock' = clock + d
  /\ current_time' = clock + d
  /\ UNCHANGED << running, exception,
                  current_game_state, current_game_mode, current_player_turn,
                  player_scores, player_failed_last_word, player_names,
                  player_name_inputs, input_active_player,
                  target_word, displayed_word_chars, current_letter_index,
                  word_start_time, hints_used_this_word, hint_timer_start_time,
                  is_hint_timer_active, show_clue_on_screen,
                  previewed_letter_char, active_preview_letter_indices,
                  pending_new_word_setup_time,
                  letter_states, letter_positions, letter_velocities,
                  original_letter_velocities, letter_preview_timers,
                  letter_target_slot_indices, letter_feedback_flash_timers >>

\* ------------------------------------------------------------------------
\* Specifications
\* ------------------------------------------------------------------------
WordChoices == 1..Len(simple_words)

\* Game play at the pace of the hint timer: the player starts a one- or
\* two-player game from the menu in the first frame, presses letter keys,
\* and frames are HINT_TIMER_DURATION_MS apart.
Next ==
  \/ \E b \in {"1P_Game", "2P_Game"} : MainMenuClick(b)
  \/ \E w \in WordChoices, lay \in Layouts : NameEnter(0, w, lay)
  \/ \E key \in LetterKeys : GamePlayKey(key)
  \/ \E w \in WordChoices, lay \in Layouts :
        /\ clock + HINT_TIMER_DURATION_MS <= MaxTime
        /\ TickGamePlay(HINT_TIMER_DURATION_MS, w, lay)
  \/ \E w \in WordChoices, lay \in Layouts : TurnTransitionKey(0, w, lay)
  \/ GamePlayEscape

Spec == Init /\ [][Next]_vars

\* Game play frame by frame: a one-player game, frames FrameMs apart, up to
\* MaxFrameTime.
NextFrames ==
  \/ MainMenuClick("1P_Game")
  \/ \E w \in WordChoices, lay \in Layouts : NameEnter(0, w, lay)
  \/ \E key \in Keys : GamePlayKey(key)
  \/ \E w \in WordChoices, lay \in Layouts :
        /\ clock + FrameMs <= MaxFrameTime
        /\ TickGamePlay(FrameMs, w, lay)

SpecFrames == Init /\ [][NextFrames]_vars

\* The program as the module loads it, on the menu, name and leaderboard
\* screens, up to the first new-word setup.
NextLoad ==
  \/ \E b \in DOMAIN main_menu_buttons : MainMenuClick(b)
  \/ \E ch \in NameChars : NameType(ch)
  \/ NameBackspace
  \/ \E lag \in ResampleLags, w \in WordChoices, lay \in Layouts :
        NameEnter(lag, w, lay)
  \/ LeaderboardEnter
  \/ QuitEvent
  \/ \E d \in {FrameMs} : clock + d <= MaxMenuTime /\ TickMenu(d)

SpecLoad == InitLoad /\ [][NextLoad]_vars

\* A two-player game in which no letter key is pressed: the hints reveal the
\* letters, frames are HINT_TIMER_DURATION_MS apart, and a key on the
\* turn-transition screen gives the turn to the other player; Escape leaves
\* the game for the main menu.
NextTurns ==
  \/ MainMenuClick("2P_Game")
  \/ \E w \in WordChoices, lay \in Layouts : NameEnter(0, w, lay)
  \/ \E w \in WordChoices, lay \in Layouts :
        /\ clock + HINT_TIMER_DURATION_MS <= MaxTurnsTime
        /\ TickGamePlay(HINT_TIMER_DURATION_MS, w, lay)
  \/ \E w \in WordChoices, lay \in Layouts : TurnTransitionKey(0, w, lay)
  \/ GamePlayEscape

SpecTurns == Init /\ [][NextTurns]_vars

\* Hint-paced play in which frames keep coming: while the program is alive on
\* the game-play screen the main loop runs one frame after another, so the
\* frame clock does not stand still there.  A frame whose update raises an
\* exception ends the program instead of advancing the clock.
FrameRuns ==
  /\ Alive
  /\ current_game_state = STATE_GAME_PLAY
  /\ clock + HINT_TIMER_DURATION_MS <= MaxTime
  /\ clock' = clock + HINT_TIMER_DURATION_MS

SpecFair == Init /\ [][Next]_vars /\ WF_clock(FrameRuns)

\* ------------------------------------------------------------------------
\* Properties
\* ------------------------------------------------------------------------
InGamePlay == Alive /\ current_game_state = STATE_GAME_PLAY

\* What a new-word setup leaves behind, in the second state of a step.
NewWordSetUp ==
  /\ current_letter_index' = 0
  /\ hints_used_this_word' = 0
  /\ displayed_word_chars' = [k \in 1..Len(target_word') |-> "_"]
  /\ previewed_letter_char' = None
  /\ active_preview_letter_indices' = <<>>
  /\ hint_timer_start_time' = word_start_time'
  /\ \A i \in 1..num_letters :
        /\ letter_states'[i] = STATE_NORMAL
        /\ letter_target_slot_indices'[i] = -1

\* The step keeps the word: no new-word setup ran in it.
SameWord ==
  /\ target_word' = target_word
  /\ word_start_time' = word_start_time

\* C1: the cursor never decreases while the word stays, it goes back to 0
\* only in a step that sets up a new word, and 0 <= cursor <= length of the
\* target word after every step.
C1_CursorMonotone ==
  [][ /\ 0 <= current_letter_index'
      /\ current_letter_index' <= Len(target_word')
      /\ (current_letter_index' < current_letter_index => NewWordSetUp) ]_vars

\* The second player's word, with the cursor advanced again after the first
\* player's word ended with the cursor at 3 and was replaced.
C1_Witness ==
  /\ InGamePlay
  /\ current_player_turn = 2
  /\ current_letter_index >= 1

\* C2 as amended: while no new-word transition is pending, a press of the
\* previewed character leaves the previewed character empty and the active
\* preview list empty, whether or not it is the expected letter.
C2_ConfirmClearsPreview ==
  (InGamePlay /\ previewed_letter_char # None /\ pending_new_word_setup_time = 0) =>
     LET g == handle_events_game_play(Globals, previewed_letter_char, current_time)
     IN /\ g.previewed_letter_char = None
        /\ g.active_preview_letter_indices = <<>>

\* C2 as claimed: every press of the previewed character during game play
\* leaves the previewed character empty and the active preview list empty.
C2_AnyPressClearsPreview ==
  (InGamePlay /\ previewed_letter_char # None) =>
     LET g == handle_events_game_play(Globals, previewed_letter_char, current_time)
     IN /\ g.previewed_letter_char = None
        /\ g.active_preview_letter_indices = <<>>

\* A letter that is not the expected one is previewed and can be confirmed.
C2_Witness ==
  /\ InGamePlay
  /\ pending_new_word_setup_time = 0
  /\ previewed_letter_char # None
  /\ active_preview_letter_indices # <<>>
  /\ current_letter_index < Len(target_word)
  /\ target_word[current_letter_index + 1] # previewed_letter_char

\* C3: with the expected letter c at the cursor not yet previewed and no
\* transition pending, pressing c and pressing c again (same frame, so before
\* the preview expires) raises the cursor by one and leaves the entity of c
\* AnimatingToSlot with the old cursor as its target slot.
C3_PreviewThenConfirm ==
  (InGamePlay /\ pending_new_word_setup_time = 0
     /\ current_letter_index < Len(target_word)) =>
    LET c == target_word[current_letter_index + 1]
        i == LetterIndex(c)
        g1 == handle_events_game_play(Globals, c, current_time)
        g2 == handle_events_game_play(g1, c, current_time)
    IN previewed_letter_char # c =>
         /\ g2.current_letter_index = current_letter_index + 1
         /\ g2.letter_states[i] = STATE_ANIMATING_TO_SLOT
         /\ g2.letter_target_slot_indices[i] = current_letter_index

\* C4, step by step: while the word stays, an entity that is AnimatingToSlot
\* with target slot k keeps that state and slot until it is Placed, and when
\* it is Placed the buffer holds its letter at k.
C4_AnimatingUntilPlaced ==
  [][ \A i \in 1..num_letters :
        (letter_states[i] = STATE_ANIMATING_TO_SLOT /\ SameWord) =>
           /\ letter_states'[i] \in {STATE_ANIMATING_TO_SLOT, STATE_PLACED}
           /\ letter_target_slot_indices'[i] = letter_target_slot_indices[i]
           /\ letter_states'[i] = STATE_PLACED =>
                displayed_word_chars'[letter_target_slot_indices[i] + 1] = letters[i]
    ]_vars

\* C5 as amended: in a frame's update in which no hint fires and no new word
\* is set up, the cursor stays, a previewed entity whose expiry has passed is
\* Normal afterwards with its preview timer cleared and the previewed
\* character empty, and one whose expiry has not passed stays previewed.
C5_PreviewTimesOut ==
  [][ (/\ InGamePlay
       /\ current_time' # current_time
       /\ ~HintDue(Globals, current_time)
       /\ pending_new_word_setup_time = 0) =>
        /\ current_letter_index' = current_letter_index
        /\ \A k \in 1..Len(active_preview_letter_indices) :
             LET i == active_preview_letter_indices[k]
             IN (letter_states[i] = STATE_PREVIEW
                   /\ previewed_letter_char = letters[i]) =>
                  IF current_time > letter_preview_timers[i]
                  THEN /\ letter_states'[i] = STATE_NORMAL
                       /\ letter_preview_timers'[i] = 0
                       /\ previewed_letter_char' = None
                  ELSE /\ letter_states'[i] = STATE_PREVIEW
                       /\ letter_preview_timers'[i] = letter_preview_timers[i]
                       /\ previewed_letter_char' = previewed_letter_char
    ]_vars

\* The frames after a press of c at the frame time t: the frame's own update,
\* optionally a press of another key d in the next frame, and an update `wait`
\* after that frame, past the expiry of the preview.
C5_PressAndWait(c, d, wait) ==
  LET t == current_time
      w == simple_words[1]
      lay == CHOOSE l \in Layouts : TRUE
      g1 == handle_events_game_play(Globals, c, t)
      g2 == update_game_play_logic(g1, current_game_mode, t, w, lay)
      g3 == IF d = None THEN g2 ELSE handle_events_game_play(g2, d, t + FrameMs)
      g4 == update_game_play_logic(g3, current_game_mode, t + FrameMs, w, lay)
  IN [previewed |-> g1.previewed_letter_char = c,
      after |-> update_game_play_logic(
                  g4, current_game_mode, t + FrameMs + wait, w, lay)]

\* C5 as claimed: a letter c is previewed, c is not pressed again, and a
\* tick runs past the expiry: the entity of c is Normal with its preview
\* timer cleared, the previewed character is empty and the cursor is what it
\* was at the press.
C5_PreviewedLetterTimesOut ==
  InGamePlay =>
    \A c \in Keys : \A d \in (Keys \ {c}) \cup {None} :
    \A wait \in {PREVIEW_DURATION_MS, HINT_TIMER_DURATION_MS} :
      LET r == C5_PressAndWait(c, d, wait)
          i == LetterIndex(c)
      IN r.previewed =>
           /\ r.after.letter_states[i] = STATE_NORMAL
           /\ r.after.letter_preview_timers[i] = 0
           /\ r.after.previewed_letter_char = None
           /\ r.after.current_letter_index = current_letter_index

\* A preview whose expiry has passed, at the start of a frame in which no
\* hint is due.
C5_Witness ==
  /\ InGamePlay
  /\ pending_new_word_setup_time = 0
  /\ ~HintDue(Globals, current_time)
  /\ \E k \in 1..Len(active_preview_letter_indices) :
       LET i == active_preview_letter_indices[k]
       IN /\ letter_states[i] = STATE_PREVIEW
          /\ previewed_letter_char = letters[i]
          /\ current_time > letter_preview_timers[i]

\* C6: a confirmation of a previewed letter that is not the expected letter
\* (or with the cursor at the end of the word) sets the flash expiry of every
\* confirmed entity to now + 500 and leaves the cursor, the buffer, the hint
\* count and both scores as they were.
C6_WrongConfirmation ==
  (/\ InGamePlay
   /\ pending_new_word_setup_time = 0
   /\ previewed_letter_char # None
   /\ \/ current_letter_index >= Len(target_word)
      \/ target_word[current_letter_index + 1] # previewed_letter_char) =>
    LET g == handle_events_game_play(Globals, previewed_letter_char, current_time)
    IN /\ \A k \in 1..Len(active_preview_letter_indices) :
            g.letter_feedback_flash_timers[active_preview_letter_indices[k]]
              = current_time + 500
       /\ g.current_letter_index = current_letter_index
       /\ g.displayed_word_chars = displayed_word_chars
       /\ g.hints_used_this_word = hints_used_this_word
       /\ g.player_scores = player_scores

\* Right after a wrong confirmation: the entity flashes, nothing is previewed.
C6_Witness ==
  /\ InGamePlay
  /\ previewed_letter_char = None
  /\ \E i \in 1..num_letters :
       /\ letter_feedback_flash_timers[i] = current_time + 500
       /\ letter_states[i] = STATE_NORMAL

\* The hint budget is used up and the word is incomplete.
HintsExhausted ==
  /\ hints_used_this_word >= HINTS_PER_WORD
  /\ current_letter_index < Len(target_word)

\* C7: the step that uses up the hint budget with the word incomplete sets
\* pending_new_word_setup_time to now + 2000; and with frames coming (while
\* the clock's bound leaves room for one) the game then gets to a new word
\* or leaves the game-play screen for the turn transition.
C7_ExhaustedHintsLeaveWord ==
  /\ [][ (/\ hints_used_this_word < HINTS_PER_WORD
          /\ SameWord
          /\ HintsExhausted') =>
            pending_new_word_setup_time' = current_time + 2000 ]_vars
  /\ (/\ InGamePlay
      /\ HintsExhausted
      /\ clock + HINT_TIMER_DURATION_MS <= MaxTime)
       ~> (\/ current_game_state # STATE_GAME_PLAY
           \/ hints_used_this_word < HINTS_PER_WORD)

\* The turn-transition screen, reached from a word whose hints ran out.
C7_Witness ==
  /\ current_game_state = STATE_SHOW_TURN_TRANSITION
  /\ HintsExhausted
  /\ pending_new_word_setup_time = 0

\* C8: on the game-play screen every entity is inside the window by its
\* current draw size, the enlarged size while Previewed.
C8_InsideWindow ==
  current_game_state = STATE_GAME_PLAY =>
    \A i \in 1..num_letters :
      LET current_letter_draw_size ==
            IF letter_states[i] = STATE_PREVIEW
            THEN ENLARGED_LETTER_SIZE ELSE default_letter_size
          x == letter_positions[i][1]
          y == letter_positions[i][2]
      IN /\ 0 <= x
         /\ x <= (window_width - current_letter_draw_size) * PosScale
         /\ 0 <= y
         /\ y <= (window_height - current_letter_draw_size) * PosScale

\* C9: once a new-word setup has chosen a word, the program runs on with a
\* swarm of exactly 26 entities, each Normal with preview timer 0, flash
\* timer 0 and target slot -1 right after the setup.
C9_SwarmResetByNewWord ==
  target_word # <<>> =>
    /\ exception = "none"
    /\ Len(letter_states) = 26
    /\ Len(letter_positions) = 26
    /\ Len(letter_preview_timers) = 26
    /\ Len(letter_feedback_flash_timers) = 26
    /\ Len(letter_target_slot_indices) = 26
    /\ (current_letter_index = 0 /\ word_start_time = clock) =>
         \A i \in 1..26 :
           /\ letter_states[i] = STATE_NORMAL
           /\ letter_preview_timers[i] = 0
           /\ letter_feedback_flash_timers[i] = 0
           /\ letter_target_slot_indices[i] = -1

\* floor(base * multiplier) of the claim: base 30/40/50, multiplier 2.0 up
\* to L * 3000 ms, 1.0 from L * 8000 ms, linear in between.
C10_ScoreOf(L, t) ==
  LET base == IF L = 3 THEN 30 ELSE IF L = 4 THEN 40 ELSE IF L = 5 THEN 50 ELSE 0
  IN IF t <= L * 3000 THEN 2 * base
     ELSE IF t >= L * 8000 THEN base
     ELSE (base * (L * 5000 + (L * 8000 - t))) \div (L * 5000)

\* C10: the step that completes the word, by a confirmation or by a hint,
\* adds floor(base * multiplier) for the word's length and the time taken to
\* the active player's score, and the program runs on.
C10_CompletedWordScore ==
  [][ (/\ InGamePlay
       /\ SameWord
       /\ current_letter_index < Len(target_word)
       /\ current_letter_index' = Len(target_word)) =>
        /\ exception' = "none"
        /\ player_scores'[current_player_turn] =
             player_scores[current_player_turn]
               + C10_ScoreOf(Len(target_word), current_time - word_start_time)
    ]_vars

\* C11: a step in which a new word is set up leaves the target word one of
\* the word list's entries, the buffer of the word's length and all
\* placeholders, the cursor 0, the hint count 0, the hint timer armed and
\* started at the setup time (the frame's time sample in an update, the fresh
\* read of the clock in an event handler), and nothing previewed.
C11_NewWordSetup ==
  [][ ~SameWord =>
        /\ \E w \in WordChoices : target_word' = simple_words[w]
        /\ Len(displayed_word_chars') = Len(target_word')
        /\ \A k \in 1..Len(displayed_word_chars') : displayed_word_chars'[k] = "_"
        /\ current_letter_index' = 0
        /\ hints_used_this_word' = 0
        /\ hint_timer_start_time' =
              IF current_time' # current_time THEN current_time ELSE clock'
        /\ is_hint_timer_active'
        /\ previewed_letter_char' = None
        /\ active_preview_letter_indices' = <<>>
    ]_vars

\* The one-player game right after the update that replaced a word: the
\* word started at the previous frame's time, later than the game's start.
C11_Witness ==
  /\ InGamePlay
  /\ current_game_mode = GAME_MODE_1P
  /\ word_start_time > 0
  /\ word_start_time + HINT_TIMER_DURATION_MS = clock
  /\ current_letter_index = 0
  /\ hints_used_this_word = 0
  /\ is_hint_timer_active

\* The 26 letter keys.
AllLetterKeys == {letters[i] : i \in 1..num_letters}

\* What C12 says of a press of c, in the state before it.
C12_HandledAsLetter(c) ==
  LET i == LetterIndex(c)
      g == handle_events_game_play(Globals, c, current_time)
  IN IF previewed_letter_char = c
     THEN /\ g.previewed_letter_char = None
          /\ g.active_preview_letter_indices = <<>>
     ELSE /\ \A j \in 1..num_letters :
               (j # i /\ letter_states[j] = STATE_PREVIEW) =>
                  g.letter_states[j] = STATE_NORMAL
          /\ g.letter_states[i] = STATE_PREVIEW
          /\ g.previewed_letter_char = c

\* C12: on the game-play screen with no new-word transition pending, a press
\* of any of the 26 letters is a confirmation when the letter is the previewed
\* one, and otherwise a new preview: the entities previewed before are Normal
\* again, the entity of the letter is Previewed and the letter is the
\* previewed character.
C12_EveryLetterKeyHandled ==
  (InGamePlay /\ pending_new_word_setup_time = 0) =>
     \A c \in AllLetterKeys : C12_HandledAsLetter(c)

\* C13: in every state every Previewed entity is the entity of the previewed
\* character, so at most one entity is Previewed; and a step that makes
\* another letter the previewed character leaves the entity previewed before
\* Normal.
C13_OnePreviewAtATime ==
  /\ [](/\ Cardinality({i \in 1..num_letters : letter_states[i] = STATE_PREVIEW}) <= 1
        /\ \A i \in 1..num_letters :
              letter_states[i] = STATE_PREVIEW => previewed_letter_char = letters[i])
  /\ [][ \A i \in 1..num_letters :
           (/\ letter_states[i] = STATE_PREVIEW
            /\ previewed_letter_char' # None
            /\ previewed_letter_char' # letters[i]) =>
              letter_states'[i] = STATE_NORMAL ]_vars

\* Before the first update of a word E is previewed, and T, Normal without a
\* failure flash, is where a preview moved it to fit the enlarged size: the
\* preview of T was superseded.
C13_Witness ==
  /\ InGamePlay
  /\ clock = word_start_time
  /\ previewed_letter_char = "E"
  /\ letter_states[LetterIndex("E")] = STATE_PREVIEW
  /\ letter_states[LetterIndex("T")] = STATE_NORMAL
  /\ letter_feedback_flash_timers[LetterIndex("T")] = 0
  /\ letter_positions[LetterIndex("T")] # letter_positions[LetterIndex("A")]

\* C14: while the word stays, a Placed entity stays Placed where it is with
\* velocity zero, and an AnimatingToSlot entity stays AnimatingToSlot or
\* becomes Placed, in every step (key press, hint, tick).
C14_PlacedIsTerminal ==
  [][ SameWord =>
        \A i \in 1..num_letters :
          /\ letter_states[i] = STATE_PLACED =>
                /\ letter_states'[i] = STATE_PLACED
                /\ letter_positions'[i] = letter_positions[i]
                /\ letter_velocities'[i] = <<0, 0>>
          /\ letter_states[i] = STATE_ANIMATING_TO_SLOT =>
                letter_states'[i] \in {STATE_ANIMATING_TO_SLOT, STATE_PLACED}
    ]_vars

\* C15: a step of a word uses a hint only from a state with the hint timer
\* armed, fewer than HINTS_PER_WORD hints used, no new-word transition pending
\* and HINT_TIMER_DURATION_MS or more elapsed since the timer's start, and it
\* uses exactly one hint and advances the cursor by one; whenever the hint is
\* due and the entity of the expected letter is Normal or Previewed, the hint
\* logic leaves that entity AnimatingToSlot with the cursor as its target slot,
\* one more hint used and the cursor one further; and the hints used never
\* exceed HINTS_PER_WORD.
C15_HintFiring ==
  /\ [][ (SameWord /\ hints_used_this_word' # hints_used_this_word) =>
           /\ is_hint_timer_active
           /\ hints_used_this_word < HINTS_PER_WORD
           /\ pending_new_word_setup_time = 0
           /\ current_time - hint_timer_start_time >= HINT_TIMER_DURATION_MS
           /\ hints_used_this_word' = hints_used_this_word + 1
           /\ current_letter_index' = current_letter_index + 1 ]_vars
  /\ [](LET i == LetterIndex(target_word[current_letter_index + 1])
            g == HintLogic(Globals, current_time)
        IN (/\ InGamePlay
            /\ HintDue(Globals, current_time)
            /\ current_letter_index < Len(target_word)
            /\ letter_states[i] \in {STATE_NORMAL, STATE_PREVIEW}) =>
              /\ g.letter_states[i] = STATE_ANIMATING_TO_SLOT
              /\ g.letter_target_slot_indices[i] = current_letter_index
              /\ g.hints_used_this_word = hints_used_this_word + 1
              /\ g.current_letter_index = current_letter_index + 1)
  /\ [](hints_used_this_word <= HINTS_PER_WORD)

\* After the reveal of a Previewed entity by the first hint of a word: one
\* hint used, the cursor at 1, the entity of the first letter on its way to
\* slot 0 or placed there, its preview timer still set.
C15_Witness ==
  /\ InGamePlay
  /\ hints_used_this_word = 1
  /\ current_letter_index = 1
  /\ LET i == LetterIndex(target_word[1])
     IN /\ letter_states[i] \in {STATE_ANIMATING_TO_SLOT, STATE_PLACED}
        /\ letter_target_slot_indices[i] = 0
        /\ letter_preview_timers[i] # 0

\* The step ends the word: the cursor reaches the end of the word, or the
\* last hint is used with the word incomplete.
WordEnds ==
  /\ SameWord
  /\ current_letter_index < Len(target_word)
  /\ \/ current_letter_index' = Len(target_word)
     \/ /\ hints_used_this_word < HINTS_PER_WORD
        /\ hints_used_this_word' >= HINTS_PER_WORD

\* C16, step by step, in two-player mode: the step that completes or fails a
\* word schedules the transition and the game runs on; the update at which the
\* transition is due shows the turn-transition screen; and a word that follows
\* another in the session is set up from that screen, for the other player.
C16_TurnsAlternate ==
  [][ current_game_mode = GAME_MODE_2P_VERSUS =>
        /\ (InGamePlay /\ WordEnds) =>
              /\ exception' = "none"
              /\ pending_new_word_setup_time' = current_time + 2000
        /\ (/\ InGamePlay
            /\ current_time' # current_time
            /\ pending_new_word_setup_time > 0
            /\ current_time >= pending_new_word_setup_time) =>
              current_game_state' = STATE_SHOW_TURN_TRANSITION
        /\ (~SameWord /\ current_game_state # STATE_PLAYER_NAME_INPUT) =>
              /\ current_game_state = STATE_SHOW_TURN_TRANSITION
              /\ current_player_turn' # current_player_turn
              /\ current_player_turn' \in {1, 2}
    ]_vars

\* C17: no handler and no update ends in an exception.
C17_NoException == exception = "none"

\* C18: in every state an entity's preview timer is non-zero exactly when
\* the entity is Previewed.
C18_PreviewTimerIffPreviewed ==
  \A i \in 1..Len(letter_states) :
     (letter_preview_timers[i] # 0) <=> (letter_states[i] = STATE_PREVIEW)

\* The square of a velocity's magnitude.
Speed2(v) == v[1] * v[1] + v[2] * v[2]

\* C19, step by step, while the word stays: an entity enters Previewed with
\* a stored original velocity of the speed it had just before; the stored
\* original velocity does not change while it is Previewed; and the step
\* that takes it back to Normal leaves it with the speed of the stored
\* original velocity.  So the speed after the revert is the speed before the
\* preview.
C19_SpeedRestored ==
  [][ SameWord =>
        \A i \in 1..num_letters :
          /\ (letter_states[i] # STATE_PREVIEW /\ letter_states'[i] = STATE_PREVIEW) =>
                Speed2(original_letter_velocities'[i]) = Speed2(letter_velocities[i])
          /\ letter_states[i] = STATE_PREVIEW =>
                original_letter_velocities'[i] = original_letter_velocities[i]
          /\ (letter_states[i] = STATE_PREVIEW /\ letter_states'[i] = STATE_NORMAL) =>
                Speed2(letter_velocities'[i]) = Speed2(original_letter_velocities[i])
    ]_vars

\* Everything the globals hold of entity i.
EntityRecord(g, i) ==
  [ state |-> g.letter_states[i],
    position |-> g.letter_positions[i],
    velocity |-> g.letter_velocities[i],
    original_velocity |-> g.original_letter_velocities[i],
    preview_timer |-> g.letter_preview_timers[i],
    target_slot |-> g.letter_target_slot_indices[i],
    flash_timer |-> g.letter_feedback_flash_timers[i] ]

\* C20: for every Previewed entity of the active preview list, the revert
\* of a confirmation, the revert of a superseded preview and the timeout
\* (at a time past the entity's expiry) give the same entity record: Normal,
\* the stored original velocity, preview timer 0, and the position, target
\* slot and flash timer it had.
C20_SameRevert ==
  \A k \in 1..Len(active_preview_letter_indices) :
     LET i == active_preview_letter_indices[k]
         confirmed == RevertConfirmed(Globals, active_preview_letter_indices)
         superseded == RevertSuperseded(Globals, active_preview_letter_indices)
         timed_out == ExpireFrom(Globals, active_preview_letter_indices, <<>>,
                                 letter_preview_timers[i] + 1)
         reverted == [EntityRecord(Globals, i) EXCEPT
                        !.state = STATE_NORMAL,
                        !.velocity = original_letter_velocities[i],
                        !.preview_timer = 0]
     IN letter_states[i] = STATE_PREVIEW =>
          /\ EntityRecord(confirmed, i) = reverted
          /\ EntityRecord(superseded, i) = reverted
          /\ EntityRecord(timed_out, i) = reverted

\* A Previewed entity that has bounced off an edge during its preview, so
\* that its velocity points against the stored original velocity.
C20_Witness ==
  /\ InGamePlay
  /\ \E k \in 1..Len(active_preview_letter_indices) :
       LET i == active_preview_letter_indices[k]
       IN /\ letter_states[i] = STATE_PREVIEW
          /\ letter_velocities[i][1] * original_letter_velocities[i][1] < 0

\* C21: whenever a press of a letter c starts a new preview (c becomes the
\* previewed character), the entity of c is left inside the window by the
\* enlarged size, with half its stored original velocity, which is not zero,
\* with preview expiry = now + 3000, and in the active preview list.
C21_NewPreview ==
  InGamePlay =>
    \A c \in AllLetterKeys :
      LET i == LetterIndex(c)
          g == handle_events_game_play(Globals, c, current_time)
          x == g.letter_positions[i][1]
          y == g.letter_positions[i][2]
          v == g.letter_velocities[i]
      IN (previewed_letter_char # c /\ g.previewed_letter_char = c) =>
           /\ 0 <= x /\ x <= (window_width - ENLARGED_LETTER_SIZE) * PosScale
           /\ 0 <= y /\ y <= (window_height - ENLARGED_LETTER_SIZE) * PosScale
           /\ 2 * v[1] = original_letter_velocities[i][1]
           /\ 2 * v[2] = original_letter_velocities[i][2]
           /\ v # <<0, 0>>
           /\ g.letter_preview_timers[i] = current_time + 3000
           /\ InSeq(g.active_preview_letter_indices, i)
           /\ g.letter_states[i] = STATE_PREVIEW

\* Right after a press of T started a preview of an entity that had bounced
\* (its velocity pointed against the stored original velocity): half the
\* stored original velocity, expiry 3000 ms after the frame's time.
C21_Witness ==
  /\ InGamePlay
  /\ previewed_letter_char = "T"
  /\ clock > word_start_time
  /\ LET i == LetterIndex("T")
     IN /\ letter_states[i] = STATE_PREVIEW
        /\ letter_preview_timers[i] = current_time + 3000
        /\ active_preview_letter_indices = <<i>>
        /\ 2 * letter_velocities[i][1] = original_letter_velocities[i][1]
        /\ letter_velocities[LetterIndex("A")][1] * original_letter_velocities[i][1] < 0

\* C22: whenever the hint is due and the entity of the expected letter is
\* neither Normal nor Previewed, the hint logic changes nothing but the hint
\* timer's start, which becomes the current time, and raises nothing.
C22_HintWithoutCandidate ==
  LET i == LetterIndex(target_word[current_letter_index + 1])
  IN (/\ InGamePlay
      /\ HintDue(Globals, current_time)
      /\ current_letter_index < Len(target_word)
      /\ letter_states[i] \notin {STATE_NORMAL, STATE_PREVIEW}) =>
        HintLogic(Globals, current_time) =
          [Globals EXCEPT !.hint_timer_start_time = current_time]

\* "TREE" with T confirmed and R and E revealed by the hints at 30000 and
\* 60000 ms after the word's start: the hint timer has started again at
\* 90000 ms with the cursor still at the second E, whose entity is taken.
C22_Witness ==
  /\ InGamePlay
  /\ current_letter_index = 3
  /\ hints_used_this_word = 2
  /\ Len(target_word) = 4
  /\ letter_states[LetterIndex(target_word[4])] \in {STATE_ANIMATING_TO_SLOT, STATE_PLACED}
  /\ hint_timer_start_time = word_start_time + 3 * HINT_TIMER_DURATION_MS
  /\ is_hint_timer_active

\* C23: the step in which a hint uses up the budget with the word
\* incomplete sets the active player's failed-last-word flag, leaves the
\* other player's flag as it was and leaves both scores as they were.
C23_FailedWordFlag ==
  [][ (/\ InGamePlay
       /\ SameWord
       /\ hints_used_this_word < HINTS_PER_WORD
       /\ HintsExhausted') =>
        /\ player_failed_last_word'[current_player_turn] = TRUE
        /\ player_failed_last_word'[3 - current_player_turn] =
             player_failed_last_word[3 - current_player_turn]
        /\ player_scores' = player_scores
    ]_vars

\* The second player has failed a word after the first player failed one:
\* both flags are set.
C23_Witness ==
  /\ InGamePlay
  /\ current_player_turn = 2
  /\ HintsExhausted
  /\ player_failed_last_word = <<TRUE, TRUE>>
  /\ player_scores = <<0, 0>>

\* C24: every timestamp a step stores is derived from current_time, the one
\* clock value read at the top of the frame: the word start and the hint-timer
\* start are current_time, a preview expiry is current_time +
\* PREVIEW_DURATION_MS, a flash expiry is current_time + FLASH_DURATION_MS and
\* the pending new-word time is current_time + NEW_WORD_DELAY_MS.
C24_SingleClockReading ==
  [][ /\ word_start_time' # word_start_time =>
           word_start_time' = current_time
      /\ hint_timer_start_time' # hint_timer_start_time =>
           hint_timer_start_time' = current_time
      /\ pending_new_word_setup_time' # pending_new_word_setup_time =>
           pending_new_word_setup_time' \in {0, current_time + NEW_WORD_DELAY_MS}
      /\ \A i \in 1..Len(letter_preview_timers) :
           (/\ i <= Len(letter_preview_timers')
            /\ letter_preview_timers'[i] # letter_preview_timers[i]) =>
              letter_preview_timers'[i] \in {0, current_time + PREVIEW_DURATION_MS}
      /\ \A i \in 1..Len(letter_feedback_flash_timers) :
           (/\ i <= Len(letter_feedback_flash_timers')
            /\ letter_feedback_flash_timers'[i] # letter_feedback_flash_timers[i]) =>
              letter_feedback_flash_timers'[i] \in {0, current_time + FLASH_DURATION_MS}
    ]_vars

\* C25: the motion step of a tick, applied in any game-play state, changes
\* nothing but entity positions, entity velocities, entity states and the
\* buffer; a state changes only from AnimatingToSlot to Placed, and a buffer
\* cell changes only to the letter of an entity placed at that slot in this
\* step.  The cursor, hints used, scores, previewed character, active preview
\* set, timers and pending new-word time are as before.
C25_MotionStepFrame ==
  InGamePlay =>
    LET m == MoveFrom(Globals, 1)
    IN /\ [m EXCEPT !.letter_positions = letter_positions,
                    !.letter_velocities = letter_velocities,
                    !.letter_states = letter_states,
                    !.displayed_word_chars = displayed_word_chars] = Globals
       /\ \A i \in 1..num_letters :
            m.letter_states[i] # letter_states[i] =>
              /\ letter_states[i] = STATE_ANIMATING_TO_SLOT
              /\ m.letter_states[i] = STATE_PLACED
       /\ Len(m.displayed_word_chars) = Len(displayed_word_chars)
       /\ \A k \in 1..Len(displayed_word_chars) :
            m.displayed_word_chars[k] # displayed_word_chars[k] =>
              \E i \in 1..num_letters :
                /\ letter_states[i] = STATE_ANIMATING_TO_SLOT
                /\ m.letter_states[i] = STATE_PLACED
                /\ letter_target_slot_indices[i] = k - 1
                /\ m.displayed_word_chars[k] = letters[i]

\* A game-play state whose motion step places an entity and writes its
\* letter into the buffer, while another entity is previewed.
C25_Witness ==
  /\ InGamePlay
  /\ \E i \in 1..num_letters :
       /\ letter_states[i] = STATE_ANIMATING_TO_SLOT
       /\ MoveFrom(Globals, 1).letter_states[i] = STATE_PLACED
  /\ MoveFrom(Globals, 1).displayed_word_chars # displayed_word_chars
  /\ \E j \in 1..num_letters : letter_states[j] = STATE_PREVIEW

\* C26: the buffer has the target word's length; every AnimatingToSlot
\* entity has a target slot s with 0 <= s < word length, so that the slot
\* position looked up for it is not the off-screen sentinel; and no Placed
\* entity sits at the sentinel coordinate.
C26_SlotInRange ==
  LET sentinel == <<SENTINEL_COORD * PosScale, SENTINEL_COORD * PosScale>>
  IN /\ Len(displayed_word_chars) = Len(target_word)
     /\ \A i \in 1..Len(letter_states) :
          /\ letter_states[i] = STATE_ANIMATING_TO_SLOT =>
               /\ 0 <= letter_target_slot_indices[i]
               /\ letter_target_slot_indices[i] < Len(target_word)
               /\ get_slot_position(letter_target_slot_indices[i],
                                    target_word, displayed_word_chars) # sentinel
          /\ letter_states[i] = STATE_PLACED =>
               letter_positions[i] # sentinel

\* An entity is on its way to a slot after the first while an earlier
\* letter's entity has been placed.
C26_Witness ==
  /\ InGamePlay
  /\ \E i \in 1..num_letters :
       /\ letter_states[i] = STATE_ANIMATING_TO_SLOT
       /\ letter_target_slot_indices[i] > 0
  /\ \E j \in 1..num_letters : letter_states[j] = STATE_PLACED

\* C27: every cell of the buffer holds the placeholder or the target word's
\* letter at that position, and a cell that holds a letter is before the
\* cursor.
C27_BufferShowsPassedLetters ==
  \A k \in 1..Len(displayed_word_chars) :
    \/ displayed_word_chars[k] = "_"
    \/ /\ k <= Len(target_word)
       /\ displayed_word_chars[k] = target_word[k]
       /\ k - 1 < current_letter_index

\* The game goes on with a letter shown in the second cell.
C27_Witness ==
  /\ InGamePlay
  /\ Len(displayed_word_chars) >= 2
  /\ displayed_word_chars[2] # "_"

C29_CompletedWordPending ==
  (/\ current_game_state = STATE_GAME_PLAY
   /\ target_word # <<>>
   /\ current_letter_index = Len(target_word)) =>
     /\ pending_new_word_setup_time # 0
     /\ ~is_hint_timer_active

\* C30 as stated: while a new-word transition is pending, the press of any
\* alphabetic key changes nothing.
C30_KeyChangesNothingWhilePending ==
  (InGamePlay /\ pending_new_word_setup_time # 0) =>
    \A c \in AllLetterKeys :
      handle_events_game_play(Globals, c, current_time) = Globals

\* C30: while a new-word transition is pending, the press of an alphabetic
\* key starts no preview, evaluates no confirmation and leaves the cursor,
\* buffer, scores, hints and entities as they are: the globals are unchanged,
\* except that the key C toggles the display of the clue; and no hint fires,
\* now or a hint period later.
C30_KeyIgnoredWhilePending ==
  (InGamePlay /\ pending_new_word_setup_time # 0) =>
    /\ \A c \in AllLetterKeys :
         handle_events_game_play(Globals, c, current_time) =
           IF c = "C"
           THEN [Globals EXCEPT !.show_clue_on_screen = ~show_clue_on_screen]
           ELSE Globals
    /\ \A d \in {0, HINT_TIMER_DURATION_MS} :
         HintLogic(Globals, current_time + d) = Globals

\* A word has been failed, the transition to the next word is pending and
\* an entity revealed by a hint is still on its way.
C30_Witness ==
  /\ InGamePlay
  /\ pending_new_word_setup_time # 0
  /\ current_letter_index < Len(target_word)
  /\ \E i \in 1..num_letters : letter_states[i] = STATE_ANIMATING_TO_SLOT

\* A step that starts a new session from the main menu.
SessionStarts ==
  /\ current_game_state = STATE_MAIN_MENU
  /\ current_game_state' = STATE_PLAYER_NAME_INPUT

KeyStep ==
  /\ InGamePlay
  /\ current_time' = current_time
  /\ current_game_state' = STATE_GAME_PLAY
  /\ exception' = "none"

\* A step of update_game_play_logic that ends without an exception.
TickStep ==
  /\ InGamePlay
  /\ current_time' # current_time
  /\ exception' = "none"

C33_VersusGameOverUnreachable ==
  /\ [](current_game_state # STATE_VERSUS_GAME_OVER)
  /\ [][ (Alive /\ current_game_mode = GAME_MODE_2P_VERSUS) =>
           /\ (/\ current_game_state = STATE_GAME_PLAY
               /\ current_game_state' # STATE_GAME_PLAY) =>
                 \/ current_game_state' = STATE_SHOW_TURN_TRANSITION
                 \/ /\ current_game_state' = STATE_MAIN_MENU
                    /\ exception' = "none"
                    /\ UNCHANGED << clock, current_time, current_player_turn,
                                    player_scores, player_failed_last_word,
                                    target_word, current_letter_index,
                                    pending_new_word_setup_time, letter_states >>
           /\ (/\ current_game_state = STATE_SHOW_TURN_TRANSITION
               /\ current_game_state' # STATE_SHOW_TURN_TRANSITION) =>
                 current_game_state' = STATE_GAME_PLAY
      ]_vars

\* The word of the second player of a two-player match is over and the
\* turn-transition screen is shown again.
C33_Witness ==
  /\ Alive
  /\ current_game_mode = GAME_MODE_2P_VERSUS
  /\ current_game_state = STATE_SHOW_TURN_TRANSITION
  /\ current_player_turn = 2
  /\ player_failed_last_word = <<TRUE, TRUE>>

====
